---- MODULE Spec2Model ----
(***************************************************************************)
(* Stencil.__init__ of src/src/soda/generator/utils.py as a state machine: *)
(* the constructor reads its keyword arguments, expands the iterations,    *)
(* builds the tensor/stage graph, schedules it (the work-queue loop) and   *)
(* runs the border-preservation pass.  Tensors and stages are keyed by     *)
(* name, as self.tensors and self.stages are.                              *)
(***************************************************************************)
EXTENDS Integers, Sequences, FiniteSets, TLC

VARIABLES
  pc,                     \* position in Stencil.__init__
  err,                    \* the exception that ended construction
  iterate,                \* self.iterate
  border,                 \* self.border
  tile_size,              \* self.tile_size
  unroll_factor,          \* self.unroll_factor
  replication_factor,     \* self.replication_factor
  extra_params,           \* self.extra_params
  input_node,             \* kwargs['input']
  output_node,            \* kwargs['output'] (mutated in place)
  locals,                 \* kwargs['locals'] (extended in place)
  local_names,            \* names of the user's locals (line 156)
  preserved_borders,      \* {to: {from, ...}}
  tensors,                \* self.tensors
  stages,                 \* self.stages
  input_in_tensors,       \* self.input is self.tensors[self.input.name]
  processing_queue,
  processed_tensors,
  chronological_tensors,  \* names of the tensors, in order
  cur,                    \* name of the tensor b popped from the queue
  todo,                   \* stages of b.children not visited yet
  attrs,                  \* the memo attributes the Stencil has (hasattr)
  all_points,             \* {b: {s: {offset: {unroll_index: point_index}}}}
  reuse_buffers,          \* {b: [length, (start, end), ...]}
  reuse_buffer_lengths,   \* {b: {end: length}}
  next_fifo,              \* {b: {start: end}}
  forwardings,            \* {b: {offset: descriptor}}
  forwarders,             \* sorted output-port counts
  forwarders_with_border, \* the (name, count) pairs, a sorted list of a set
  replicated_reuse_buffers,         \* {b: [length, (start, end), ...]}
  replicated_reuse_buffer_lengths,  \* {b: {end: length}}
  replicated_next_fifo,             \* {b: {start: end}}
  replicated_all_points,            \* {b: {s: {offset: point_index}}}
  ids,                    \* id() of the Tensor objects in self.tensors
  overall_stencil_window_cache,  \* the module's _overall_stencil_window_cache
  stencils_built,         \* Stencils the process has constructed or begun
  stencils_planned,       \* Stencils the process constructs, one after another
  arg_vec,                    \* the vector Serialize is called with
  serialized              \* the values Serialize returned

vars == <<pc, err, iterate, border, tile_size, unroll_factor,
          replication_factor, extra_params, input_node,
          output_node, locals, local_names, preserved_borders, tensors,
          stages, input_in_tensors, processing_queue, processed_tensors,
          chronological_tensors, cur, todo, attrs, all_points,
          reuse_buffers, reuse_buffer_lengths, next_fifo, forwardings,
          forwarders, forwarders_with_border, replicated_reuse_buffers,
          replicated_reuse_buffer_lengths, replicated_next_fifo,
          replicated_all_points, ids, overall_stencil_window_cache,
          stencils_built, stencils_planned, arg_vec, serialized>>

\* what outlives a Stencil: the module's cache and the count of Stencils
process == <<overall_stencil_window_cache, stencils_built, stencils_planned>>

\* a call of Serialize by itself
call == <<arg_vec, serialized>>

\* the memoized attributes, which the constructor does not set
memo == <<attrs, all_points, reuse_buffers, reuse_buffer_lengths, next_fifo,
          forwardings, forwarders, forwarders_with_border,
          replicated_reuse_buffers, replicated_reuse_buffer_lengths,
          replicated_next_fifo, replicated_all_points>>

\* those of the replicated accessors
replicated == <<replicated_reuse_buffers, replicated_reuse_buffer_lengths,
                replicated_next_fifo, replicated_all_points>>

-----------------------------------------------------------------------------
(* Bounds of the model and the inputs it draws from. *)

\* iterate is drawn from -1..MaxIter
MaxIter == 3
\* the scheduler's queue holds at most MaxQueue names
MaxQueue == 8
\* Serialize is called with 2 to MaxDim dimensions, tile entries up to
\* MaxTile and index components up to MaxIndex in magnitude
MaxDim == 3
MaxTile == 2
MaxIndex == 1
\* one process constructs up to MaxStencils Stencils one after another, and
\* id() of a tensor of a later Stencil is one of 1..MaxIds
MaxStencils == 2
MaxIds == 3

NoName == ""
NoErr == [kind |-> "none", msg |-> "", args |-> <<>>]
EmptyMap == [x \in {} |-> 0]

InputName == "I"
ParamName == "P"
\* names the user's locals can have, in declaration order
LocalNames == <<"A">>
OutNames == {"O", "I"}
Borders == {"ignore", "preserve"}
TileSizes == {<<3, 0>>}
\* (unroll_factor, replication_factor) of the configuration
Factors == {[unroll_factor |-> 1, replication_factor |-> 2],
            [unroll_factor |-> 2, replication_factor |-> 1]}
\* (type, chan) of the input definition; the output is uint16_t, 1 channel
OutKind == [type |-> "uint16_t", chan |-> 1]
InputKinds == {[type |-> "uint16_t", chan |-> 1],
               [type |-> "float", chan |-> 1],
               [type |-> "uint16_t", chan |-> 2]}
DramConfigs == {[separate |-> FALSE, bank |-> 1], [separate |-> TRUE, bank |-> 2],
                [separate |-> TRUE, bank |-> 1]}
\* store indices and the windows a definition can read from one tensor
StoreIdx == {<<0, 0>>, <<1, 0>>}
Windows == {{}, {<<-1, 0>>}, {<<-1, 0>>, <<0, 1>>}}
\* a window with two points of equal serialized offset (3 with tile size (3, 0));
\* the output can read the input with it when iterate = 1
TiedWindows == {{<<-1, 0>>, <<0, 1>>, <<3, 0>>}}
ParamLoads == {{}, {[name |-> ParamName, idx |-> <<0, 0>>]}}

-----------------------------------------------------------------------------
(* Pure helpers. *)

RECURSIVE Product(_)
Product(s) == IF s = <<>> THEN 1 ELSE Head(s) * Product(Tail(s))

RECURSIVE SerializeSum(_, _, _)
SerializeSum(vec, ts, i) ==
  IF i > Len(ts) THEN 0
  ELSE vec[i] * Product(SubSeq(ts, 1, i - 1)) + SerializeSum(vec, ts, i + 1)

\* Serialize(vec, tile_size) with the first component scaled by tile_size[0]
SerializeInclusive(vec, ts) == vec[1] * ts[1] + SerializeSum(vec, ts, 2)

\* Serialize(vec, tile_size): vec[0] + sum of vec[i]*prod(tile_size[:i]), i >= 1
Serialize(vec, ts) == vec[1] + SerializeSum(vec, ts, 2)

SerializeIterative(ws, ts) == [k \in 1..Len(ws) |-> Serialize(ws[k], ts)]

SetMax(S) == CHOOSE x \in S : \A y \in S : y <= x
SetMin(S) == CHOOSE x \in S : \A y \in S : x <= y
SeqRange(s) == {s[k] : k \in 1..Len(s)}
\* the element of a singleton
Only(S) == CHOOSE x \in S : TRUE
\* list.index(x)
Index(s, x) == CHOOSE k \in 1..Len(s) : s[k] = x
Max2(a, b) == IF a < b THEN b ELSE a

VecSub(a, b) == [d \in 1..Len(a) |-> a[d] - b[d]]
VecAddSub(a, b, c) == [d \in 1..Len(a) |-> a[d] + b[d] - c[d]]

\* all orders in which the elements of S can be listed
RECURSIVE Orders(_)
Orders(S) ==
  IF S = {} THEN {<<>>}
  ELSE UNION {{<<x>> \o o : o \in Orders(S \ {x})} : x \in S}

\* sorted(S, key=lambda x: Serialize(x, tile_size)) for a set S of vectors:
\* every list the sort can return; vectors of equal key keep the order in
\* which the set is iterated
SortedBySerialize(S, ts) ==
  {o \in Orders(S) :
     \A i \in 1..(Len(o) - 1) : Serialize(o[i], ts) <= Serialize(o[i + 1], ts)}

-----------------------------------------------------------------------------
(* Definition nodes (soda.grammar Local/Output) and their mutators. *)

NameFromIter(n, i) == IF i > 0 THEN n \o "_iter" \o ToString(i) ELSE n

LocalLoadCallBack(n, iteration, in_name, lnames) ==
  IF n = in_name THEN NameFromIter(n, iteration)
  ELSE IF n \in lnames THEN NameFromIter(n, iteration) ELSE n

OutputLoadCallBack(n, iteration, in_name, lnames) ==
  IF n = in_name \/ n \in lnames
  THEN NameFromIter(n, iteration - 1) ELSE n

\* node.MutateLoad(cb) with cb given as the map of names it computes
MutateLoad(node, cb) ==
  [node EXCEPT !.loads = {[l EXCEPT !.name = cb[l.name]] : l \in node.loads}]
MutateStore(node, name) == [node EXCEPT !.name = name]
PreserveBorder(node, from) == [node EXCEPT !.preserve_border = from]
\* soda.grammar.Local(output_node=output_node)
LocalFromOutput(node) == node
LoadNames(node) == {l.name : l \in node.loads}

\* no Stencil is built yet (tile_size apart)
Unbuilt ==
  /\ err = NoErr
  /\ iterate = 0
  /\ border = NoName
  /\ unroll_factor = 0
  /\ replication_factor = 0
  /\ extra_params = {}
  /\ input_node = [name |-> NoName, type |-> NoName, chan |-> 0]
  /\ output_node = [name |-> NoName, type |-> NoName, chan |-> 0, idx |-> <<>>,
                    loads |-> {}, preserve_border |-> NoName]
  /\ locals = <<>>
  /\ local_names = {}
  /\ preserved_borders = EmptyMap
  /\ tensors = EmptyMap
  /\ stages = EmptyMap
  /\ input_in_tensors = FALSE
  /\ processing_queue = <<>>
  /\ processed_tensors = {}
  /\ chronological_tensors = <<>>
  /\ cur = NoName
  /\ todo = {}
  /\ attrs = {}
  /\ all_points = EmptyMap
  /\ reuse_buffers = EmptyMap
  /\ reuse_buffer_lengths = EmptyMap
  /\ next_fifo = EmptyMap
  /\ forwardings = EmptyMap
  /\ forwarders = <<>>
  /\ forwarders_with_border = {}
  /\ replicated_reuse_buffers = EmptyMap
  /\ replicated_reuse_buffer_lengths = EmptyMap
  /\ replicated_next_fifo = EmptyMap
  /\ replicated_all_points = EmptyMap
  /\ ids = EmptyMap

\* the process starts the constructor of its only Stencil
Init ==
  /\ pc = "start"
  /\ Unbuilt
  /\ tile_size = <<>>
  /\ overall_stencil_window_cache = EmptyMap
  /\ stencils_built = 1
  /\ stencils_planned = 1
  /\ arg_vec = <<>>
  /\ serialized = <<>>

\* raise kind(msg % args): msg is the text before the first conversion
Raise(kind, msg, args) ==
  /\ pc' = "error"
  /\ err' = [kind |-> kind, msg |-> msg, args |-> args]

\* the values iterate is given: below 1 (-1, 0) and 1..MaxIter
Iterations == (-1)..MaxIter

\* A process that constructs several Stencils constructs small ones: one
\* iteration, preserved borders, definitions stored at (0, 0) that read
\* windows of Windows and no parameter, and no name used twice.
SeveralStencils == stencils_planned > 1
SmallNode(d) ==
  /\ d.idx = <<0, 0>>
  /\ d.name # InputName
  /\ \A l \in d.loads : l.name # ParamName
  /\ \A n \in {l.name : l \in d.loads} : {l.idx : l \in {x \in d.loads : x.name = n}} \in Windows

\* lines 119-121 with the test iterate < 0 in place of iterate < 1
ReadIterateNegative ==
  /\ pc = "start"
  /\ UNCHANGED <<memo, process, ids, call>>
  /\ \E k \in Iterations :
       /\ iterate' = k
       /\ IF k < 0 THEN Raise("SemanticError", "cannot iterate", <<k>>)
          ELSE pc' = "config" /\ err' = err
  /\ UNCHANGED <<border, tile_size, unroll_factor, replication_factor, extra_params, input_node, output_node,
                 locals, local_names, preserved_borders, tensors, stages,
                 input_in_tensors, processing_queue, processed_tensors,
                 chronological_tensors, cur, todo>>

\* lines 119-121
ReadIterate ==
  /\ pc = "start"
  /\ UNCHANGED <<memo, process, ids, call>>
  /\ \E k \in IF SeveralStencils THEN {1} ELSE Iterations :
       /\ iterate' = k
       /\ IF k < 1 THEN Raise("SemanticError", "cannot iterate", <<k>>)
          ELSE pc' = "config" /\ err' = err
  /\ UNCHANGED <<border, tile_size, unroll_factor, replication_factor, extra_params, input_node, output_node,
                 locals, local_names, preserved_borders, tensors, stages,
                 input_in_tensors, processing_queue, processed_tensors,
                 chronological_tensors, cur, todo>>

\* the loads of a definition reading the tensors srcs: one window per tensor
\* (possibly empty) and possibly a load of the extra parameter
\* (more are the further windows it can read the input with)
LoadsFrom(srcs, more) ==
  {UNION {{[name |-> n, idx |-> p] : p \in w[n]} : n \in srcs} \cup pl :
     w \in {f \in [srcs -> Windows \cup more] :
              \A n \in srcs : f[n] \in Windows \/ n = InputName},
     pl \in ParamLoads}

NodesNamed(name, srcs, more) ==
  {[name |-> name, type |-> OutKind.type, chan |-> OutKind.chan, idx |-> i,
    loads |-> l, preserve_border |-> NoName] : i \in StoreIdx, l \in LoadsFrom(srcs, more)}

\* the lists of local definitions: local k is named LocalNames[k] (or, for
\* the first, like the input) and reads the input and the locals before it
RECURSIVE LocalLists(_)
LocalLists(n) ==
  IF n = 0 THEN {<<>>}
  ELSE LET srcs == {InputName} \cup {LocalNames[k] : k \in 1..(n - 1)}
           names == IF n = 1 THEN {LocalNames[1], InputName} ELSE {LocalNames[n]}
       IN {Append(ls, d) : ls \in LocalLists(n - 1),
                           d \in UNION {NodesNamed(nm, srcs, {}) : nm \in names}}

AllLocalLists == UNION {LocalLists(n) : n \in 0..Len(LocalNames)}

\* lines 122-146; self.dram_bank and the fields no later step of the
\* constructor reads (cluster, burst_width, app_name, unroll factors, dim)
\* are not kept
ReadConfig ==
  /\ pc = "config"
  /\ UNCHANGED <<memo, process, ids, call>>
  /\ \E b \in Borders, dram \in DramConfigs, ts \in TileSizes, f \in Factors,
        ik \in InputKinds,
        o \in UNION {NodesNamed(nm, {InputName} \cup SeqRange(LocalNames),
                                 IF iterate = 1 THEN TiedWindows ELSE {}) : nm \in OutNames} :
       /\ SeveralStencils =>
            /\ b = "preserve" /\ ~dram.separate /\ f.unroll_factor = 2
            /\ ik = OutKind /\ SmallNode(o)
       /\ IF dram.separate /\ dram.bank % 2 # 0
          THEN /\ Raise("SystemExit", "", <<-1>>)
               /\ border' = b
               /\ tile_size' = ts
               /\ unroll_factor' = f.unroll_factor
               /\ replication_factor' = f.replication_factor
               /\ UNCHANGED <<extra_params, input_node, output_node>>
          ELSE /\ pc' = "check"
               /\ err' = err
               /\ border' = b
               /\ tile_size' = ts
               /\ unroll_factor' = f.unroll_factor
               /\ replication_factor' = f.replication_factor
               /\ extra_params' = {ParamName}
               /\ input_node' = [name |-> InputName, type |-> ik.type, chan |-> ik.chan]
               /\ output_node' = o
  /\ UNCHANGED <<iterate, locals, local_names, preserved_borders, tensors, stages,
                 input_in_tensors, processing_queue, processed_tensors,
                 chronological_tensors, cur, todo>>

\* lines 148-153 without the channel test of line 151
CheckIterateTypeOnly ==
  /\ pc = "check"
  /\ UNCHANGED <<memo, process, ids, call>>
  /\ IF iterate > 1 /\ input_node.type # output_node.type
     THEN Raise("SemanticError", "input must have the same type as output", <<input_node.type, output_node.type>>)
     ELSE pc' = "expand" /\ err' = err
  /\ UNCHANGED <<iterate, border, tile_size, unroll_factor, replication_factor, extra_params, input_node, output_node,
                 locals, local_names, preserved_borders, tensors, stages,
                 input_in_tensors, processing_queue, processed_tensors,
                 chronological_tensors, cur, todo>>

\* lines 148-153
CheckIterate ==
  /\ pc = "check"
  /\ UNCHANGED <<memo, process, ids, call>>
  /\ IF iterate > 1 /\ input_node.type # output_node.type
     THEN Raise("SemanticError", "input must have the same type as output", <<input_node.type, output_node.type>>)
     ELSE IF iterate > 1 /\ input_node.chan # output_node.chan
     THEN Raise("SemanticError", "input must have the same number of channel as output", <<input_node.chan, output_node.chan>>)
     ELSE pc' = "expand" /\ err' = err
  /\ UNCHANGED <<iterate, border, tile_size, unroll_factor, replication_factor, extra_params, input_node, output_node,
                 locals, local_names, preserved_borders, tensors, stages,
                 input_in_tensors, processing_queue, processed_tensors,
                 chronological_tensors, cur, todo>>

\* lines 164-170: the output definition cloned as the local input_iter{it}
NewLocalFromOutput(out, it, in_name, lnames, preserve) ==
  LET loaded == MutateLoad(LocalFromOutput(out),
                  [n \in LoadNames(out) |-> OutputLoadCallBack(n, it, in_name, lnames)])
      stored == MutateStore(loaded, NameFromIter(in_name, it))
  IN IF preserve THEN PreserveBorder(stored, NameFromIter(in_name, it - 1)) ELSE stored

\* lines 173-175: a local cloned for iteration it
NewLocalFromLocal(local, it, in_name, lnames) ==
  MutateStore(
    MutateLoad(local, [n \in LoadNames(local) |-> LocalLoadCallBack(n, it, in_name, lnames)]),
    NameFromIter(local.name, it))

\* lines 163-176 without the inner loop of lines 172-176: the user's locals
\* are not cloned
NewLocalsOutputOnly(ls, out, k, in_name, lnames, preserve) ==
  [j \in 1..(k - 1) |-> NewLocalFromOutput(out, j, in_name, lnames, preserve)]

\* lines 163-176: new_locals after the loop over range(1, iterate)
NewLocals(ls, out, k, in_name, lnames, preserve) ==
  LET per == 1 + Len(ls)
  IN [j \in 1..((k - 1) * per) |->
        LET it == ((j - 1) \div per) + 1
            pos == (j - 1) % per
        IN IF pos = 0 THEN NewLocalFromOutput(out, it, in_name, lnames, preserve)
           ELSE NewLocalFromLocal(ls[pos], it, in_name, lnames)]

\* PreservedBorders with every target tagged with its own iteration's input
\* instead of the previous one's
PreservedBordersSameIteration(out, k, in_name, preserve) ==
  LET pairs == IF preserve
               THEN {<<NameFromIter(in_name, it), NameFromIter(in_name, it)>> : it \in 1..(k - 1)}
                    \cup {<<out.name, NameFromIter(in_name, k - 1)>>}
               ELSE {}
  IN [dst \in {p[1] : p \in pairs} |-> {p[2] : p \in {q \in pairs : q[1] = dst}}]

\* lines 159, 170, 180: preserved_borders, {to: {from, ...}}
PreservedBorders(out, k, in_name, preserve) ==
  LET pairs == IF preserve
               THEN {<<NameFromIter(in_name, it), NameFromIter(in_name, it - 1)>> : it \in 1..(k - 1)}
                    \cup {<<out.name, NameFromIter(in_name, k - 1)>>}
               ELSE {}
  IN [dst \in {p[1] : p \in pairs} |-> {p[2] : p \in {q \in pairs : q[1] = dst}}]

\* lines 177-181: the output definition after the expansion
FinalOutput(out, k, in_name, preserve) ==
  LET tagged == IF preserve THEN PreserveBorder(out, NameFromIter(in_name, k - 1)) ELSE out
  IN MutateLoad(tagged, [n \in LoadNames(out) |-> NameFromIter(n, k - 1)])

\* lines 155-182
ExpandIterations ==
  /\ pc = "expand"
  /\ UNCHANGED <<memo, process, ids, call>>
  /\ \E ls \in AllLocalLists :
       /\ SeveralStencils => \A k \in 1..Len(ls) : SmallNode(ls[k])
       \* the definitions the output reads are declared
       /\ (LoadNames(output_node) \cap SeqRange(LocalNames)) \subseteq SeqRange([k \in 1..Len(ls) |-> ls[k].name])
       /\ LET lnames == {ls[k].name : k \in 1..Len(ls)}
              preserve == (border = "preserve")
          IN /\ local_names' = lnames
             /\ locals' = ls \o NewLocals(ls, output_node, iterate, input_node.name, lnames, preserve)
             /\ preserved_borders' = PreservedBorders(output_node, iterate, input_node.name, preserve)
             /\ output_node' = FinalOutput(output_node, iterate, input_node.name, preserve)
  /\ pc' = "tensors"
  /\ UNCHANGED <<err, iterate, border, tile_size, unroll_factor, replication_factor, extra_params, input_node, tensors, stages,
                 input_in_tensors, processing_queue, processed_tensors,
                 chronological_tensors, cur, todo>>

\* Tensor.__init__, lines 42-61 (one expression per definition, so the
\* store indices of a definition's expressions agree)
Tensor(node, idx) ==
  [type |-> node.type, chan |-> node.chan, idx |-> idx, parent |-> NoName,
   children |-> {}, offset |-> 0, border |-> [kind |-> "none", stages |-> {}]]

\* line 203: {i.name: Tensor(i) for i in locals}; a later definition of the
\* same name replaces an earlier one
LocalTensors(ls) ==
  [n \in {ls[k].name : k \in 1..Len(ls)} |->
     LET last == SetMax({k \in 1..Len(ls) : ls[k].name = n})
     IN Tensor(ls[last], ls[last].idx)]

\* dict[key] = value
Put(map, key, value) ==
  [x \in DOMAIN map \cup {key} |-> IF x = key THEN value ELSE map[x]]

\* the keys of self.tensors in insertion order (lines 204-213)
TensorOrder ==
  LET names == [k \in 1..Len(locals) |-> locals[k].name]
      firsts == SelectSeq([k \in 1..Len(names) |-> IF \E j \in 1..(k - 1) : names[j] = names[k]
                                                    THEN NoName ELSE names[k]],
                          LAMBDA n : n # NoName)
      with_input == IF input_node.name \in SeqRange(firsts) THEN firsts
                    ELSE Append(firsts, input_node.name)
  IN IF output_node.name \in SeqRange(with_input) THEN with_input
     ELSE Append(with_input, output_node.name)

\* the Tensor self.input when self.tensors holds another Tensor under its
\* name (line 213 after line 208)
SelfInput == "self.input"

\* the Tensor objects of lines 203-213: the values of the map T, and
\* self.input once line 207 created it
Objects(T) ==
  DOMAIN T \cup (IF input_node.name \notin local_names THEN {SelfInput} ELSE {})

\* id() of the objects of T: distinct for objects alive together.  The first
\* Stencil of the process finds the memo of line 837 empty, so its ids are
\* named by the position in self.tensors; a later Stencil's tensors can get
\* any ids, those of discarded tensors included.
IdMaps(T) ==
  LET same == output_node.name # input_node.name
      first == [o \in Objects(T) |->
                  IF o = SelfInput
                  THEN (IF same THEN Index(TensorOrder, input_node.name)
                        ELSE Len(TensorOrder) + 1)
                  ELSE Index(TensorOrder, o)]
  IN IF stencils_built = 1 THEN {first}
     ELSE {m \in [Objects(T) -> 1..MaxIds] :
             /\ \A a, b \in DOMAIN T : a # b => m[a] # m[b]
             /\ SelfInput \in Objects(T) =>
                  \A a \in DOMAIN T :
                    (m[a] = m[SelfInput]) = (same /\ a = input_node.name)}

\* lines 203-213; the messages of both raise statements read self.input /
\* self.output before they are assigned, which raises AttributeError
BuildTensors ==
  /\ pc = "tensors"
  /\ UNCHANGED <<memo, process, call>>
  /\ LET t0 == LocalTensors(locals)
         t1 == Put(t0, input_node.name, Tensor(input_node, <<>>))
         t2 == Put(t1, output_node.name, Tensor(output_node, output_node.idx))
     IN IF input_node.name \in local_names
        THEN /\ Raise("AttributeError", "", <<"input">>)
             /\ tensors' = t0
             /\ input_in_tensors' = FALSE
        ELSE IF output_node.name \in local_names
        THEN /\ Raise("AttributeError", "", <<"output">>)
             /\ tensors' = t1
             /\ input_in_tensors' = TRUE
        ELSE /\ pc' = "stages"
             /\ err' = err
             /\ tensors' = t2
             /\ input_in_tensors' = (output_node.name # input_node.name)
  /\ \E m \in IdMaps(tensors') : ids' = m
  /\ UNCHANGED <<iterate, border, tile_size, unroll_factor, replication_factor, extra_params, input_node, output_node,
                 locals, local_names, preserved_borders, stages,
                 processing_queue, processed_tensors,
                 chronological_tensors, cur, todo>>

\* GetParentTensorsFor, lines 413-414: the names of the tensors node loads
ParentNames(node) == {l.name : l \in {x \in node.loads : x.name \notin extra_params}}

\* the indices at which node loads the tensor name
LoadedPoints(node, name) == {l.idx : l \in {x \in node.loads : x.name = name}}

\* GetWindowFor, lines 417-422: every map {name: sorted window} it can return
GetWindowFor(node) ==
  LET lists == UNION {SortedBySerialize(LoadedPoints(node, name), tile_size) :
                        name \in ParentNames(node)}
  IN {w \in [ParentNames(node) -> lists] :
        \A name \in ParentNames(node) :
          w[name] \in SortedBySerialize(LoadedPoints(node, name), tile_size)}

\* Stage(...), lines 220-226 and 234-240 (Stage.__init__ sets border to None)
StageFor(node, window) ==
  [window |-> window,
   offset |-> [n \in DOMAIN window |-> SerializeIterative(window[n], tile_size)],
   delay |-> EmptyMap,
   inputs |-> ParentNames(node),
   output |-> node.name,
   idx |-> node.idx,
   border |-> NoName]

\* self.stages after the stages of nodes[1..k] are stored (lines 216-241):
\* every map the windows' sorts allow
RECURSIVE StagesFor(_, _)
StagesFor(nodes, k) ==
  IF k = 0 THEN {EmptyMap}
  ELSE {Put(m, nodes[k].name, StageFor(nodes[k], w)) :
          m \in StagesFor(nodes, k - 1), w \in GetWindowFor(nodes[k])}

AllNodes == locals \o <<output_node>>

\* lines 215-244; self.tensors[x] in GetParentTensorsFor raises KeyError for
\* a load that names no tensor, and the constructor is left as it was
BuildStages ==
  /\ pc = "stages"
  /\ UNCHANGED <<memo, process, ids, call>>
  /\ LET nodes == AllNodes
         missing == UNION {ParentNames(nodes[k]) \ DOMAIN tensors : k \in 1..Len(nodes)}
     IN IF missing # {}
        THEN /\ \E m \in missing : Raise("KeyError", "", <<m>>)
             /\ UNCHANGED <<tensors, stages>>
        ELSE /\ pc' = "borders"
             /\ err' = err
             /\ \E st \in StagesFor(nodes, Len(nodes)) :
                  /\ stages' = st
                  /\ tensors' = [n \in DOMAIN tensors |->
                       [tensors[n] EXCEPT
                          !.parent = IF n \in DOMAIN st THEN n ELSE NoName,
                          !.children = {sn \in DOMAIN st : n \in st[sn].inputs}]]
  /\ UNCHANGED <<iterate, border, tile_size, unroll_factor, replication_factor, extra_params, input_node, output_node,
                 locals, local_names, preserved_borders, input_in_tensors,
                 processing_queue, processed_tensors,
                 chronological_tensors, cur, todo>>

\* the src of lines 250-254: the variable the loop of line 248 leaves bound
BorderSrc(dst) == CHOOSE src \in preserved_borders[dst] : TRUE

\* lines 246-254
ResolveBorders ==
  /\ pc = "borders"
  /\ UNCHANGED <<memo, process, ids, call>>
  /\ tensors' = [n \in DOMAIN tensors |->
       LET dsts == {dst \in DOMAIN preserved_borders : BorderSrc(dst) = n}
       IN IF dsts = {} THEN tensors[n]
          ELSE [tensors[n] EXCEPT !.border = [kind |-> "preserve", stages |-> dsts]]]
  /\ stages' = [sn \in DOMAIN stages |->
       IF sn \in DOMAIN preserved_borders
       THEN [stages[sn] EXCEPT !.border = BorderSrc(sn)] ELSE stages[sn]]
  /\ pc' = "sched_init"
  /\ UNCHANGED <<err, iterate, border, tile_size, unroll_factor, replication_factor, extra_params, input_node, output_node,
                 locals, local_names, preserved_borders, input_in_tensors,
                 processing_queue, processed_tensors,
                 chronological_tensors, cur, todo>>

\* lines 258-260
SchedInit ==
  /\ pc = "sched_init"
  /\ UNCHANGED <<memo, process, ids, call>>
  /\ processing_queue' = <<input_node.name>>
  /\ processed_tensors' = {input_node.name}
  /\ chronological_tensors' = <<input_node.name>>
  /\ pc' = "sched"
  /\ UNCHANGED <<err, iterate, border, tile_size, unroll_factor, replication_factor, extra_params, input_node, output_node,
                 locals, local_names, preserved_borders, tensors, stages,
                 input_in_tensors, cur, todo>>

\* lines 262-264: popleft; the loop of line 265 then visits b.children
SchedPop ==
  /\ pc = "sched"
  /\ UNCHANGED <<memo, process, ids, call>>
  /\ processing_queue # <<>>
  /\ cur' = Head(processing_queue)
  /\ processing_queue' = Tail(processing_queue)
  /\ todo' = tensors[Head(processing_queue)].children
  /\ pc' = IF tensors[Head(processing_queue)].children = {} THEN "sched" ELSE "visit"
  /\ UNCHANGED <<err, iterate, border, tile_size, unroll_factor, replication_factor, extra_params, input_node, output_node,
                 locals, local_names, preserved_borders, tensors, stages,
                 input_in_tensors, processed_tensors, chronological_tensors>>

Last(s) == s[Len(s)]

\* line 276
StageOffset(st) == Serialize(st.idx, tile_size)

\* lines 305-307 without the producer's offset (tensor.offset)
TensorOffsetNoProducer(st, x) == Last(st.offset[x]) - StageOffset(st)

\* lines 298, 305-307: when tensor x is available for stage st
TensorOffset(st, x) == tensors[x].offset + Last(st.offset[x]) - StageOffset(st)

\* Sync without the loop of lines 297-319: the offset stays the seed
SyncSeedOnly(st, ins, offset) == offset

\* Sync, lines 279-320, over the inputs ins not yet looked at
RECURSIVE Sync(_, _, _)
Sync(st, ins, offset) ==
  IF ins = {} THEN offset
  ELSE LET x == CHOOSE y \in ins : TRUE
           tensor_offset == TensorOffset(st, x)
       IN Sync(st, ins \ {x}, IF offset < tensor_offset THEN tensor_offset ELSE offset)

\* lines 328-346
DelayFor(st, x, out_offset) ==
  LET delay == out_offset - TensorOffset(st, x)
  IN Max2(delay, 0)

\* line 267 without the test of line 266
ReadyUnprocessed(s) == s \notin processed_tensors

\* line 266 without the test of line 267
ReadyAgain(s) == stages[s].inputs \subseteq processed_tensors

\* line 266-267
Ready(s) ==
  /\ stages[s].inputs \subseteq processed_tensors
  /\ s \notin processed_tensors

\* lines 265-363, one stage s of b.children
SchedVisit ==
  /\ pc = "visit"
  /\ UNCHANGED <<memo, process, ids, call>>
  /\ \E s \in todo :
       /\ todo' = todo \ {s}
       /\ pc' = IF todo = {s} THEN "sched" ELSE "visit"
       /\ IF Ready(s)
          THEN LET st == stages[s]
                   out_offset == Sync(st, st.inputs, tensors[st.output].offset)
               IN /\ tensors' = [tensors EXCEPT ![st.output].offset = out_offset]
                  /\ stages' = [stages EXCEPT ![s].delay =
                       [x \in st.inputs |-> DelayFor(st, x, out_offset)]]
                  /\ processing_queue' = Append(processing_queue, s)
                  /\ processed_tensors' = processed_tensors \cup {s}
                  /\ chronological_tensors' = Append(chronological_tensors, st.output)
          ELSE /\ \E o \in Orders(stages[s].inputs \ processed_tensors) :
                    processing_queue' = processing_queue \o o
               /\ UNCHANGED <<tensors, stages, processed_tensors, chronological_tensors>>
  /\ Len(processing_queue') <= MaxQueue
  /\ UNCHANGED <<err, iterate, border, tile_size, unroll_factor, replication_factor, extra_params, input_node, output_node,
                 locals, local_names, preserved_borders, input_in_tensors, cur>>

\* GetStencilWindowOffset, lines 855-857
GetStencilWindowOffset(w) ==
  LET any == CHOOSE p \in w : TRUE
  IN [d \in 1..Len(any) |-> -SetMin({p[d] : p \in w})]

\* GetStencilDistance, lines 831-832
GetStencilDistance(w, ts) ==
  SetMax({Serialize(p, ts) : p \in w}) + Serialize(GetStencilWindowOffset(w), ts)

\* GetOverallStencilWindow, lines 843-851, on the graph (T, S): the set a
\* call computes when the memo of line 837 holds no key it looks up
RECURSIVE GetOverallStencilWindow(_, _, _, _)
GetOverallStencilWindow(src, dst, T, S) ==
  IF T[dst].parent = NoName THEN {}
  ELSE LET st == S[T[dst].parent]
       IN UNION {IF name # src
                 THEN LET recursive_points == GetOverallStencilWindow(src, name, T, S)
                      IN {VecAddSub(p, point, T[dst].idx) :
                            p \in recursive_points, point \in SeqRange(st.window[name])}
                 ELSE {VecSub(point, T[dst].idx) : point \in SeqRange(st.window[name])}
                 : name \in DOMAIN st.window}

\* GetOverallStencilWindow, lines 838-853, with the memo C of line 837: the
\* set returned and the memo after the call.  src is the name of
\* input_tensor and src_id its id(); dst names output_tensor.
\* (the result of a call is bound as the element of a singleton, so that it
\* is evaluated once however often it is read)
RECURSIVE CachedStencilWindow(_, _, _, _, _, _)
RECURSIVE CachedWindowOver(_, _, _, _, _, _, _, _)
CachedStencilWindow(src, src_id, dst, T, S, C) ==
  LET key == <<src_id, ids[dst]>>
  IN IF key \in DOMAIN C THEN [points |-> C[key], cache |-> C]
     ELSE IF T[dst].parent = NoName THEN [points |-> {}, cache |-> Put(C, key, {})]
     ELSE Only({[points |-> r.points, cache |-> Put(r.cache, key, r.points)] :
                  r \in {CachedWindowOver(src, src_id, dst, DOMAIN S[T[dst].parent].window,
                                          {}, T, S, C)}})

\* lines 845-850 without the store index of output_tensor taken off in line
\* 850
CachedWindowOverNoStore(src, src_id, dst, names, acc, T, S, C) ==
  IF names = {} THEN [points |-> acc, cache |-> C]
  ELSE LET name == CHOOSE n \in names : TRUE
           points == SeqRange(S[T[dst].parent].window[name])
       IN IF name # src
          THEN Only({CachedWindowOver(src, src_id, dst, names \ {name},
                       acc \cup {VecAddSub(p, point, T[dst].idx) :
                                   p \in r.points, point \in points},
                       T, S, r.cache) :
                     r \in {CachedStencilWindow(src, src_id, name, T, S, C)}})
          ELSE CachedWindowOver(src, src_id, dst, names \ {name},
                    acc \cup points, T, S, C)

\* lines 845-850: the loop over the names of output_tensor.parent.window
\* still to visit, all_points being acc
CachedWindowOver(src, src_id, dst, names, acc, T, S, C) ==
  IF names = {} THEN [points |-> acc, cache |-> C]
  ELSE LET name == CHOOSE n \in names : TRUE
           points == SeqRange(S[T[dst].parent].window[name])
       IN IF name # src
          THEN Only({CachedWindowOver(src, src_id, dst, names \ {name},
                       acc \cup {VecAddSub(p, point, T[dst].idx) :
                                   p \in r.points, point \in points},
                       T, S, r.cache) :
                     r \in {CachedStencilWindow(src, src_id, name, T, S, C)}})
          ELSE CachedWindowOver(src, src_id, dst, names \ {name},
                    acc \cup {VecSub(point, T[dst].idx) : point \in points},
                    T, S, C)

\* lines 369-374 without line 375: the source tensor does not learn its child
PreserveNodeNoChild(node, T, S, C) ==
  LET from == node.preserve_border
      st == S[node.name]
      windows == IF from \in DOMAIN st.window THEN st.window
                 ELSE Put(st.window, from, <<node.idx>>)
      S1 == [S EXCEPT ![node.name].window = windows]
  IN [t |-> T,
      s |-> [S1 EXCEPT ![node.name].inputs = @ \cup {from}],
      c |-> C, failed |-> FALSE]

\* lines 369-375 for one node that has preserve_border, C being the memo of
\* line 837; max() of line 831 raises ValueError for an empty window, after
\* lines 370-371 acted
PreserveNode(node, T, S, C) ==
  LET from == node.preserve_border
      st == S[node.name]
      windows == IF from \in DOMAIN st.window THEN st.window
                 ELSE Put(st.window, from, <<node.idx>>)
      S1 == [S EXCEPT ![node.name].window = windows]
      Delay(stencil_window) ==
        IF from \in DOMAIN st.delay THEN st.delay
        ELSE Put(st.delay, from,
                 GetStencilDistance(stencil_window, tile_size)
                 - Serialize(GetStencilWindowOffset(stencil_window), tile_size))
  IN Only({IF call_371.points = {}
           THEN [t |-> T, s |-> S1, c |-> call_371.cache, failed |-> TRUE]
           ELSE [t |-> [T EXCEPT ![from].children = @ \cup {node.name}],
                 s |-> [S1 EXCEPT ![node.name].delay = Delay(call_371.points),
                                  ![node.name].inputs = @ \cup {from}],
                 c |-> call_371.cache, failed |-> FALSE] :
           call_371 \in {CachedStencilWindow(from, ids[from], node.name, T, S1, C)}})

\* lines 366-375, the nodes from index i on
RECURSIVE PreserveFrom(_, _, _, _, _)
PreserveFrom(nodes, i, T, S, C) ==
  IF i > Len(nodes) THEN [t |-> T, s |-> S, c |-> C, failed |-> FALSE]
  ELSE IF nodes[i].preserve_border = NoName THEN PreserveFrom(nodes, i + 1, T, S, C)
  ELSE Only({IF r.failed THEN r ELSE PreserveFrom(nodes, i + 1, r.t, r.s, r.c) :
             r \in {PreserveNode(nodes[i], T, S, C)}})

\* lines 366-375, once the queue is empty (line 262)
BorderPass ==
  /\ pc = "sched"
  /\ UNCHANGED <<memo, stencils_built, stencils_planned, ids, call>>
  /\ processing_queue = <<>>
  /\ \E r \in {PreserveFrom(AllNodes, 1, tensors, stages, overall_stencil_window_cache)} :
        /\ tensors' = r.t
        /\ stages' = r.s
        /\ overall_stencil_window_cache' = r.c
        /\ IF r.failed
           THEN Raise("ValueError", "max() arg is an empty sequence", <<>>)
           ELSE pc' = "done" /\ err' = err
  /\ UNCHANGED <<iterate, border, tile_size, unroll_factor, replication_factor, extra_params, input_node, output_node,
                 locals, local_names, preserved_borders, input_in_tensors,
                 processing_queue, processed_tensors,
                 chronological_tensors, cur, todo>>

-----------------------------------------------------------------------------
(* The derived structures: reuse buffers, point maps, forwardings. *)

\* GetProducerTensors, lines 400-401 (names of the tensors)
GetProducerTensors == {b \in DOMAIN tensors : tensors[b].children # {}}

\* SerializeIterative(s.window[b.name], tile_size), lines 655 and 666
Offsets(s, b) == SerializeIterative(stages[s].window[b], tile_size)

\* sorted(S) for a set S of integers
RECURSIVE Sorted(_)
Sorted(S) ==
  IF S = {} THEN <<>>
  ELSE LET m == SetMin(S) IN <<m>> \o Sorted(S \ {m})

\* A_dag of _GetChains, line 655
ADag(b, U) ==
  UNION {{SetMax(SeqRange(Offsets(s, b))) + i - x + stages[s].delay[b] :
            x \in SeqRange(Offsets(s, b)), i \in 0..(U - 1)} :
         s \in tensors[b].children}

\* _GetChains without the reversed of line 657: chain k holds the taps of
\* residue k - 1
GetChainsAscending(b, U) == [k \in 1..U |-> Sorted({x \in ADag(b, U) : x % U = k - 1})]

\* _GetChains, lines 653-660: chain k holds the taps of residue U - k
GetChains(b, U) == [k \in 1..U |-> Sorted({x \in ADag(b, U) : x % U = U - k})]

\* lines 681-685 for one chain
ChainLinks(chain) ==
  <<<<chain[1], chain[1]>>>> \o [j \in 1..(Len(chain) - 1) |-> <<chain[j], chain[j + 1]>>]

\* lines 680-685 for the chains from k on
RECURSIVE BufferLinks(_, _)
BufferLinks(chains, k) ==
  IF k > Len(chains) THEN <<>>
  ELSE ChainLinks(chains[k]) \o BufferLinks(chains, k + 1)

\* _GetBuffer, lines 677-688: [length, (start, end), ...]
GetBuffer(b, U) ==
  LET links == BufferLinks(GetChains(b, U), 1)
  IN [length |-> SetMax({l[2] : l \in SeqRange(links)}) + 1, links |-> links]

\* lines 442-449 with the test start < unroll_factor in line 445
RECURSIVE ReuseBufferLengthBelow(_, _, _, _, _)
ReuseBufferLengthBelow(links, i, first, acc, U) ==
  IF i > Len(links) THEN acc
  ELSE LET start == links[i][1]
           end == links[i][2]
       IN IF (start % U) \in first /\ start < U
          THEN ReuseBufferLengthBelow(links, i + 1, first \ {start % U},
                                      Put(acc, end, end \div U), U)
          ELSE ReuseBufferLengthBelow(links, i + 1, first \ {start % U},
                                      Put(acc, end, (end - start) \div U), U)

\* lines 442-449: reuse_buffer_length after the links from i on, first being
\* the residues no link has started yet
RECURSIVE ReuseBufferLength(_, _, _, _, _)
ReuseBufferLength(links, i, first, acc, U) ==
  IF i > Len(links) THEN acc
  ELSE LET start == links[i][1]
           end == links[i][2]
       IN IF (start % U) \in first /\ start >= U
          THEN ReuseBufferLength(links, i + 1, first \ {start % U},
                                 Put(acc, end, end \div U), U)
          ELSE ReuseBufferLength(links, i + 1, first \ {start % U},
                                 Put(acc, end, (end - start) \div U), U)

\* _GetPoints, lines 662-675, for the child s of b:
\* {offset: {unroll_index: point_index}}; a later point of the same key
\* replaces an earlier one (line 670)
GetPoints(s, b, U) ==
  LET offsets == Offsets(s, b)
      max_offset == SetMax(SeqRange(offsets))
      tap(u, idx) == max_offset - offsets[idx] + stages[s].delay[b] + u
      taps == {tap(u, idx) : u \in 0..(U - 1), idx \in 1..Len(offsets)}
  IN [t \in taps |->
        LET lanes == {U - 1 - u : u \in {v \in 0..(U - 1) :
                                           \E idx \in 1..Len(offsets) : tap(v, idx) = t}}
        IN [lane \in lanes |->
              SetMax({idx \in 1..Len(offsets) : tap(U - 1 - lane, idx) = t}) - 1]]

\* lines 463-466: next_fifo of one reuse buffer (a later link of the same
\* start replaces an earlier one)
NextFIFO(reuse_buffer) ==
  LET links == reuse_buffer.links
      fwd == {i \in 1..Len(links) : links[i][1] < links[i][2]}
  IN [start \in {links[i][1] : i \in fwd} |->
        links[SetMax({i \in fwd : links[i][1] = start})][2]]

\* Tensor.IsInput, lines 78-79, with Stage.IsInput, lines 114-115
IsInput(t) ==
  tensors[t].parent = NoName \/ stages[tensors[t].parent].inputs = {}

\* lines 543-546 (and 479-482) without the test offset < unroll_factor
BorderedAnyTap(src, offset) ==
  /\ tensors[src].border.kind = "preserve" /\ tensors[src].border.stages # {}
  /\ ~IsInput(src)

\* lines 543-546 (and 479-482): the tap gets border ports
Bordered(src, offset) ==
  /\ offset < unroll_factor
  /\ tensors[src].border.kind = "preserve" /\ tensors[src].border.stages # {}
  /\ ~IsInput(src)

\* GetStencilDim, lines 834-835
GetStencilDim(w) ==
  LET any == CHOOSE p \in w : TRUE
  IN [d \in 1..Len(any) |-> SetMax({p[d] : p \in w}) - SetMin({p[d] : p \in w}) + 1]

\* lines 557-562: the tensors the loop walks from parent on, seen being those
\* walked already; -1 when the walk comes back to a tensor (the loop does not
\* end)
RECURSIVE BorderWalk(_, _)
BorderWalk(parent, seen) ==
  IF parent = NoName \/ tensors[parent].parent = NoName THEN 0
  ELSE IF parent \in seen THEN -1
  ELSE LET rest == BorderWalk(stages[tensors[parent].parent].border, seen \cup {parent})
       IN IF rest < 0 THEN -1 ELSE 1 + rest

\* self.dim; the callers pass len(tile_size)
Dim == Len(tile_size)

\* lines 519-523: the ports of one stage's points at a tap, each inserted at
\* the front, in the order of points.items() (descending lane)
PointOutputs(dst, points) ==
  LET lanes == Sorted(DOMAIN points)
  IN [k \in 1..Len(lanes) |->
        [port |-> "to", dst |-> dst, point |-> points[lanes[k]], pe |-> lanes[k]]]

\* lines 547-554: the window the border ports of src's stage are sized by
SelfWindowCall(src, C) ==
  LET from == stages[src].border
  IN IF from # NoName
     THEN CachedStencilWindow(from, ids[from], src, tensors, stages, C)
     ELSE CachedStencilWindow(input_node.name, ids[SelfInput], src, tensors, stages, C)

\* self_window of line 552; a set an earlier call of the same GetForwarders
\* stored is the set a call computes now, the graph being the same
SelfWindow(src) == SelfWindowCall(src, overall_stencil_window_cache).points

\* lines 547-591: the border part of the descriptor d of src, for the lane
\* unroll_index the loop of line 519 ended with
BorderPorts(d, src, unroll_index) ==
  LET self_window == SelfWindow(src)
      overall_idx == GetStencilWindowOffset(self_window)
      self_dim == GetStencilDim(self_window)
      iteration == 1 + BorderWalk(stages[src].border, {})
      delay == (GetStencilDistance(self_window, tile_size)
                - Serialize(overall_idx, tile_size)) * iteration
      param_offset(k) == (tile_size[k] - self_dim[k] + 1) * Product(SubSeq(tile_size, 1, k - 1))
      sides == [j \in 1..(2 * (Dim - 1)) |->
                  LET k == (j + 1) \div 2
                  IN IF j % 2 = 1
                     THEN [port |-> "left", dim |-> k - 1,
                           pe |-> (unroll_index + param_offset(k)) % unroll_factor]
                     ELSE [port |-> "right", dim |-> k - 1,
                           pe |-> (unroll_index - param_offset(k)) % unroll_factor]]
  IN [d EXCEPT !.func_name = "forward_" \o src,
               !.temp_param = <<unroll_index, delay>>,
               !.inputs = @ \o sides,
               !.params = @ \o [k \in 1..(Dim - 1) |-> [param |-> "input_bound_dim", dim |-> k - 1]]
                            \o [k \in 1..Dim |-> [param |-> "input_size_dim", dim |-> k - 1]]]

\* Forwarding without the continue of lines 531-532: every stage reading the
\* tap adds the input, the next-tap output and the parameters again
RECURSIVE ForwardingNoContinue(_, _, _, _, _, _, _, _)
ForwardingNoContinue(src, offset, order, k, d, points, fifo, lengths) ==
  IF k > Len(order) THEN d
  ELSE IF offset \notin DOMAIN points[order[k]]
  THEN ForwardingNoContinue(src, offset, order, k + 1, d, points, fifo, lengths)
  ELSE LET pts == points[order[k]][offset]
           d1 == [d EXCEPT !.outputs = PointOutputs(order[k], pts) \o @]
           d2 == [d1 EXCEPT !.outputs = IF offset \in DOMAIN fifo
                                        THEN Append(@, [port |-> "next", offset |-> fifo[offset]])
                                        ELSE @,
                            !.inputs = Append(@, [port |-> "tap", offset |-> offset]),
                            !.func_name = "forward",
                            !.temp_param = <<lengths[offset]>>]
           d3 == IF Bordered(src, offset) THEN BorderPorts(d2, src, SetMin(DOMAIN pts)) ELSE d2
           d4 == [d3 EXCEPT !.params = Append(@, [param |-> "epoch_num"])]
       IN ForwardingNoContinue(src, offset, order, k + 1, d4, points, fifo, lengths)

\* lines 516-594 for the tap offset of src: the descriptor after the stages
\* order[k..] (the order of all_points[src]), d being the descriptor so far
RECURSIVE Forwarding(_, _, _, _, _, _, _, _)
Forwarding(src, offset, order, k, d, points, fifo, lengths) ==
  IF k > Len(order) THEN d
  ELSE IF offset \notin DOMAIN points[order[k]]
  THEN Forwarding(src, offset, order, k + 1, d, points, fifo, lengths)
  ELSE LET pts == points[order[k]][offset]
           d1 == [d EXCEPT !.outputs = PointOutputs(order[k], pts) \o @]
           d2 == [d1 EXCEPT !.outputs = IF offset \in DOMAIN fifo
                                        THEN Append(@, [port |-> "next", offset |-> fifo[offset]])
                                        ELSE @,
                            !.inputs = Append(@, [port |-> "tap", offset |-> offset]),
                            !.func_name = "forward",
                            !.temp_param = <<lengths[offset]>>]
           d3 == IF Bordered(src, offset) THEN BorderPorts(d2, src, SetMin(DOMAIN pts)) ELSE d2
           d4 == [d3 EXCEPT !.params = Append(@, [param |-> "epoch_num"])]
       IN Forwarding(src, offset, order, k + 1,
                     IF d.func_name # "" THEN d1 ELSE d4, points, fifo, lengths)

\* forwardings.setdefault(offset, ['', [], [], [], None]), line 518
NoForwarding ==
  [func_name |-> "", outputs |-> <<>>, inputs |-> <<>>, params |-> <<>>, temp_param |-> <<>>]

\* GetForwardings(src_name), lines 503-597, from the memoized maps
GetForwardings(src, points_of, fifo, lengths) ==
  LET taps == UNION {DOMAIN points_of.points[dst] : dst \in DOMAIN points_of.points}
  IN [offset \in taps |->
        Forwarding(src, offset, points_of.order, 1, NoForwarding,
                   points_of.points, fifo, lengths)]

\* the list GetProducerTensors returns, lines 400-401
ProducerOrder == SelectSeq(TensorOrder, LAMBDA b : b \in GetProducerTensors)

\* s.delay[b.name] of lines 655 and 670 raises KeyError
MissingDelay(b) == \E s \in tensors[b].children : b \notin DOMAIN stages[s].delay

\* the producers GetAllPoints stores before a lookup fails
Stored ==
  LET bad == {k \in 1..Len(ProducerOrder) : MissingDelay(ProducerOrder[k])}
  IN IF bad = {} THEN SeqRange(ProducerOrder)
     ELSE {ProducerOrder[k] : k \in 1..(SetMin(bad) - 1)}

\* the orders in which a loop over b.children (a set of stages) can meet
\* them, for every b of P
RECURSIVE ChildOrders(_)
ChildOrders(P) ==
  IF P = {} THEN {EmptyMap}
  ELSE LET b == CHOOSE x \in P : TRUE
       IN {Put(m, b, o) : m \in ChildOrders(P \ {b}), o \in Orders(tensors[b].children)}

\* GetAllPoints, lines 452-457, order[b] being the order in which the loop
\* of line 664 meets b.children
AllPoints(order) ==
  [b \in Stored |->
     [order |-> order[b],
      points |-> [s \in tensors[b].children |-> GetPoints(s, b, unroll_factor)]]]

\* GetReuseBuffers, lines 432-450
ReuseBuffers == [b \in GetProducerTensors |-> GetBuffer(b, unroll_factor)]

\* self.reuse_buffer_lengths of lines 435-449, for the buffers stored
ReuseBufferLengths(buffers) ==
  [b \in DOMAIN buffers |->
     ReuseBufferLength(buffers[b].links, 1, 0..(unroll_factor - 1),
                       EmptyMap, unroll_factor)]

\* GetNextFIFO, lines 459-468
GetNextFIFO(buffers) == [b \in DOMAIN buffers |-> NextFIFO(buffers[b])]

\* the taps of b in the point maps points_of = all_points[b]
Taps(points_of) ==
  UNION {DOMAIN points_of.points[dst] : dst \in DOMAIN points_of.points}

\* the loop of lines 558-562 does not end for src
EndlessWalk(src) == BorderWalk(stages[src].border, {}) < 0

\* the memo of line 837 after the calls of line 552 GetForwardings makes for
\* the tensors srcs[k..]; the walk of lines 558-562 that does not end comes
\* after the call
RECURSIVE WindowCalls(_, _, _, _)
WindowCalls(srcs, k, points, C) ==
  IF k > Len(srcs) THEN C
  ELSE LET src == srcs[k]
       IN IF \E t \in Taps(points[src]) : Bordered(src, t)
          THEN LET C1 == SelfWindowCall(src, C).cache
               IN IF EndlessWalk(src) THEN C1 ELSE WindowCalls(srcs, k + 1, points, C1)
          ELSE WindowCalls(srcs, k + 1, points, C)

\* GetForwarders, lines 470-491, called on the constructed Stencil on which
\* nothing is memoized yet, with the calls it makes: GetAllPoints, GetNextFIFO,
\* GetReuseBuffers and GetForwardings of every tensor in all_points.  A failed
\* lookup leaves the attributes set so far; pc = "forwardings" is the loop of
\* lines 558-562 running on.
GetForwarders ==
  /\ pc = "done"
  /\ err = NoErr
  /\ attrs = {}
  /\ \E order \in ChildOrders(GetProducerTensors) : all_points' = AllPoints(order)
  /\ IF Stored # GetProducerTensors
     THEN /\ err' = [kind |-> "KeyError", msg |-> "", args |-> <<ProducerOrder[Cardinality(Stored) + 1]>>]
          /\ attrs' = attrs \cup {"all_points"}
          /\ pc' = pc
          /\ UNCHANGED <<reuse_buffers, reuse_buffer_lengths, next_fifo,
                         forwardings, forwarders, forwarders_with_border,
                         overall_stencil_window_cache>>
     ELSE /\ reuse_buffers' = ReuseBuffers
          /\ reuse_buffer_lengths' = ReuseBufferLengths(reuse_buffers')
          /\ next_fifo' = GetNextFIFO(reuse_buffers')
          /\ overall_stencil_window_cache' =
               WindowCalls(ProducerOrder, 1, all_points', overall_stencil_window_cache)
          /\ IF \E b \in GetProducerTensors :
                  \E t \in Taps(all_points'[b]) : Bordered(b, t) /\ EndlessWalk(b)
             THEN /\ pc' = "forwardings"
                  /\ attrs' = attrs \cup {"all_points", "reuse_buffers", "reuse_buffer_lengths",
                                          "next_fifo", "forwarders", "forwarders_with_border"}
                  /\ UNCHANGED <<err, forwardings, forwarders, forwarders_with_border>>
             ELSE /\ forwardings' =
                       [b \in GetProducerTensors |->
                          GetForwardings(b, all_points'[b], next_fifo'[b], reuse_buffer_lengths'[b])]
                  /\ forwarders' =
                       Sorted(UNION {{Len(forwardings'[b][t].outputs) :
                                        t \in {x \in Taps(all_points'[b]) : ~Bordered(b, x)}} :
                                     b \in GetProducerTensors})
                  /\ forwarders_with_border' =
                       UNION {{<<b, Len(forwardings'[b][t].outputs)>> :
                                 t \in {x \in Taps(all_points'[b]) : Bordered(b, x)}} :
                              b \in GetProducerTensors}
                  /\ attrs' = attrs \cup {"all_points", "reuse_buffers", "reuse_buffer_lengths",
                                          "next_fifo", "forwardings", "forwarders",
                                          "forwarders_with_border"}
                  /\ UNCHANGED <<pc, err>>
  /\ UNCHANGED <<iterate, border, tile_size, unroll_factor, replication_factor,
                 extra_params, input_node, output_node, locals, local_names,
                 preserved_borders, tensors, stages, input_in_tensors,
                 processing_queue, processed_tensors, chronological_tensors,
                 cur, todo, replicated, stencils_built, stencils_planned, ids, call>>

\* A_dag of _get_replicated_reuse_chains without the delay of lines 696-697
ReplicatedADagNoDelay(b) ==
  UNION {{SetMax(SeqRange(Offsets(s, b))) - x : x \in SeqRange(Offsets(s, b))} :
         s \in tensors[b].children}

\* A_dag of _get_replicated_reuse_chains, lines 693-697
ReplicatedADag(b) ==
  UNION {{SetMax(SeqRange(Offsets(s, b))) - x + stages[s].delay[b] :
            x \in SeqRange(Offsets(s, b))} :
         s \in tensors[b].children}

\* _get_replicated_reuse_chains, lines 690-705: chain k holds the taps of
\* residue R - k
ReplicatedChains(b, R) ==
  [k \in 1..R |-> Sorted({x \in ReplicatedADag(b) : x % R = R - k})]

\* lines 726-733 for the chains from k on; an empty chain adds no link
RECURSIVE ReplicatedLinks(_, _)
ReplicatedLinks(chains, k) ==
  IF k > Len(chains) THEN <<>>
  ELSE (IF Len(chains[k]) > 0 THEN ChainLinks(chains[k]) ELSE <<>>)
       \o ReplicatedLinks(chains, k + 1)

\* _get_replicated_reuse_buffer, lines 723-737
ReplicatedBuffer(b, R) ==
  LET links == ReplicatedLinks(ReplicatedChains(b, R), 1)
  IN [length |-> SetMax({l[2] : l \in SeqRange(links)}) + 1, links |-> links]

\* _get_replicated_points, lines 707-721, for the child s of b:
\* {offset: point_index}; a later point of the same offset replaces an
\* earlier one (lines 714-715)
ReplicatedPoints(s, b) ==
  LET offsets == Offsets(s, b)
      max_offset == SetMax(SeqRange(offsets))
      tap(idx) == max_offset - offsets[idx] + stages[s].delay[b]
  IN [t \in {tap(idx) : idx \in 1..Len(offsets)} |->
        SetMax({idx \in 1..Len(offsets) : tap(idx) = t}) - 1]

\* get_replicated_next_fifo (lines 599-610, with get_replicated_reuse_buffers,
\* lines 617-641) and get_replicated_all_points (lines 643-651), called on the
\* constructed Stencil.  get_producer_tensors (lines 406-407) lists the
\* tensors GetProducerTensors lists.  The replicated attributes and those of
\* GetForwarders are disjoint and neither call changes the graph, so each
\* family is called on a Stencil on which nothing is memoized yet.
GetReplicated ==
  /\ pc = "done"
  /\ err = NoErr
  /\ attrs = {}
  /\ IF Stored # GetProducerTensors
     THEN /\ err' = [kind |-> "KeyError", msg |-> "", args |-> <<ProducerOrder[Cardinality(Stored) + 1]>>]
          /\ attrs' = {"replicated_next_fifo", "replicated_reuse_buffers",
                       "replicated_reuse_buffer_lengths"}
          /\ replicated_reuse_buffers' = [b \in Stored |-> ReplicatedBuffer(b, replication_factor)]
          /\ replicated_reuse_buffer_lengths' =
               [b \in Stored |->
                  ReuseBufferLength(replicated_reuse_buffers'[b].links, 1,
                                    0..(replication_factor - 1), EmptyMap, replication_factor)]
          /\ UNCHANGED <<replicated_next_fifo, replicated_all_points>>
     ELSE /\ replicated_reuse_buffers' =
               [b \in GetProducerTensors |-> ReplicatedBuffer(b, replication_factor)]
          /\ replicated_reuse_buffer_lengths' =
               [b \in GetProducerTensors |->
                  ReuseBufferLength(replicated_reuse_buffers'[b].links, 1,
                                    0..(replication_factor - 1), EmptyMap, replication_factor)]
          /\ replicated_next_fifo' =
               [b \in GetProducerTensors |-> NextFIFO(replicated_reuse_buffers'[b])]
          /\ replicated_all_points' =
               [b \in GetProducerTensors |->
                  [s \in tensors[b].children |-> ReplicatedPoints(s, b)]]
          /\ attrs' = {"replicated_next_fifo", "replicated_reuse_buffers",
                       "replicated_reuse_buffer_lengths", "replicated_all_points"}
          /\ err' = err
  /\ UNCHANGED <<pc, iterate, border, tile_size, unroll_factor, replication_factor,
                 extra_params, input_node, output_node, locals, local_names,
                 preserved_borders, tensors, stages, input_in_tensors,
                 processing_queue, processed_tensors, chronological_tensors,
                 cur, todo, all_points, reuse_buffers, reuse_buffer_lengths,
                 next_fifo, forwardings, forwarders, forwarders_with_border,
                 process, ids, call>>

\* arg_vec with component d raised by one
Bump(v, d) == [v EXCEPT ![d] = @ + 1]

\* the vectors of n components from lo to hi
Vectors(n, lo, hi) == [1..n -> lo..hi]

\* a caller calls Serialize (lines 825-826) on arg_vec, on arg_vec raised by one in
\* each component, and on the zero vector, all with tile_size
SerializeCall ==
  /\ pc = "serialize"
  /\ serialized' = [value |-> Serialize(arg_vec, tile_size),
                    bumped |-> [d \in 1..Len(arg_vec) |-> Serialize(Bump(arg_vec, d), tile_size)],
                    zero |-> Serialize([d \in 1..Len(arg_vec) |-> 0], tile_size)]
  /\ pc' = "serialized"
  /\ UNCHANGED <<err, iterate, border, tile_size, unroll_factor, replication_factor,
                 extra_params, input_node, output_node, locals, local_names,
                 preserved_borders, tensors, stages, input_in_tensors,
                 processing_queue, processed_tensors, chronological_tensors,
                 cur, todo, memo, process, ids, arg_vec>>

\* the tile sizes and index vectors Serialize is called with: 2 or 3
\* dimensions, tile entries 0..MaxTile and the tile size of the examples,
\* index components -MaxIndex..MaxIndex
SerializeInit ==
  /\ pc = "serialize"
  /\ Unbuilt
  /\ overall_stencil_window_cache = EmptyMap
  /\ stencils_built = 0
  /\ stencils_planned = 0
  /\ \E n \in 2..MaxDim :
       /\ tile_size \in Vectors(n, 0, MaxTile) \cup {<<233, 0>>}
       /\ arg_vec \in Vectors(Len(tile_size), -MaxIndex, MaxIndex)
  /\ serialized = <<>>

SerializeNext == SerializeCall

SerializeSpec == SerializeInit /\ [][SerializeNext]_vars

Next ==
  \/ ReadIterate
  \/ ReadConfig
  \/ CheckIterate
  \/ ExpandIterations
  \/ BuildTensors
  \/ BuildStages
  \/ ResolveBorders
  \/ SchedInit
  \/ SchedPop
  \/ SchedVisit
  \/ BorderPass
  \/ GetForwarders
  \/ GetReplicated

Spec == Init /\ [][Next]_vars

\* The process constructs MaxStencils Stencils one after another; the memo of
\* line 837 is a module global and outlives each of them.
RebuildInit ==
  /\ pc = "start"
  /\ Unbuilt
  /\ tile_size = <<>>
  /\ overall_stencil_window_cache = EmptyMap
  /\ stencils_built = 1
  /\ stencils_planned = MaxStencils
  /\ arg_vec = <<>>
  /\ serialized = <<>>

\* The Stencil is dropped and the constructor of the next one starts (line
\* 118); _overall_stencil_window_cache is kept.
Rebuild ==
  /\ pc = "done"
  /\ stencils_built < stencils_planned
  /\ stencils_built' = stencils_built + 1
  /\ pc' = "start"
  /\ err' = NoErr
  /\ iterate' = 0
  /\ border' = NoName
  /\ unroll_factor' = 0
  /\ replication_factor' = 0
  /\ extra_params' = {}
  /\ input_node' = [name |-> NoName, type |-> NoName, chan |-> 0]
  /\ output_node' = [name |-> NoName, type |-> NoName, chan |-> 0, idx |-> <<>>,
                    loads |-> {}, preserve_border |-> NoName]
  /\ locals' = <<>>
  /\ local_names' = {}
  /\ preserved_borders' = EmptyMap
  /\ tensors' = EmptyMap
  /\ stages' = EmptyMap
  /\ input_in_tensors' = FALSE
  /\ processing_queue' = <<>>
  /\ processed_tensors' = {}
  /\ chronological_tensors' = <<>>
  /\ cur' = NoName
  /\ todo' = {}
  /\ attrs' = {}
  /\ all_points' = EmptyMap
  /\ reuse_buffers' = EmptyMap
  /\ reuse_buffer_lengths' = EmptyMap
  /\ next_fifo' = EmptyMap
  /\ forwardings' = EmptyMap
  /\ forwarders' = <<>>
  /\ forwarders_with_border' = {}
  /\ replicated_reuse_buffers' = EmptyMap
  /\ replicated_reuse_buffer_lengths' = EmptyMap
  /\ replicated_next_fifo' = EmptyMap
  /\ replicated_all_points' = EmptyMap
  /\ ids' = EmptyMap
  /\ tile_size' = <<>>
  /\ UNCHANGED <<overall_stencil_window_cache, stencils_planned, call>>

RebuildNext == Next \/ Rebuild

RebuildSpec == RebuildInit /\ [][RebuildNext]_vars

\* the scheduler's loop runs on (lines 262-363) and the statements after it
\* are reached
FairSpec == Spec /\ WF_vars(SchedPop) /\ WF_vars(SchedVisit) /\ WF_vars(BorderPass)

-----------------------------------------------------------------------------
(* Properties of the constructed graph. *)

\* construction returned: the statement after line 375 is reached
Constructed == pc = "done"

\* the largest serialized offset of the window stage s reads from tensor x
MaxWindowOffset(s, x) ==
  SetMax({Serialize(p, tile_size) : p \in SeqRange(stages[s].window[x])})

\* input x of stage s is available when s needs it
Causal(s, x) ==
  tensors[x].offset + MaxWindowOffset(s, x) - Serialize(stages[s].idx, tile_size)
    <= tensors[stages[s].output].offset

\* C1: scheduling causality.  After construction, for every stage s and every
\* input tensor x of s (inputs attached by the border pass included),
\* x.offset + largest serialized window offset of x in s - serialized store
\* index of s <= s.output.offset.
C1_Causality ==
  Constructed => \A s \in DOMAIN stages : \A x \in stages[s].inputs : Causal(s, x)

\* what the scheduler does establish: causality for the stages it scheduled,
\* when the output is not named like the input
C1_CausalityOfScheduled ==
  (Constructed /\ input_in_tensors) =>
    \A s \in DOMAIN stages : s \in processed_tensors =>
      \A x \in stages[s].inputs : Causal(s, x)

\* positions i < j of chronological_tensors
ChronPairs ==
  {p \in (DOMAIN chronological_tensors) \X (DOMAIN chronological_tensors) : p[1] < p[2]}

IterName(n, k) == IF k = 0 THEN n ELSE n \o "_iter" \o ToString(k)

\* {I, O}, every user local l, and I_iter{k}, l_iter{k} for k in 1..K-1
ExpectedTensorNames ==
  {input_node.name, output_node.name}
    \cup {IterName(n, k) : n \in {input_node.name} \cup local_names, k \in 0..(iterate - 1)}

\* the chain pipeline: one user local, which reads the input only, and the
\* output reads that local only
IsChain ==
  /\ Cardinality(local_names) = 1
  /\ output_node.name \notin {input_node.name} \cup local_names
  /\ \A l \in local_names :
       /\ DOMAIN stages[l].offset = {input_node.name}
       /\ DOMAIN stages[output_node.name].offset = {IterName(l, iterate - 1)}

\* input, local, input_iter1, local_iter1, ..., output
ChainOrder ==
  LET l == CHOOSE n \in local_names : TRUE
  IN [j \in 1..(2 * iterate + 1) |->
        IF j = 2 * iterate + 1 THEN output_node.name
        ELSE IF j % 2 = 1 THEN IterName(input_node.name, (j - 1) \div 2)
        ELSE IterName(l, (j - 2) \div 2)]

\* C3: iteration expansion.  For iterate = K >= 1 construction yields exactly
\* the tensors {I, O}, every user local l, and I_iter{k}, l_iter{k} for k in
\* 1..K-1; and for the chain pipeline chronological_tensors lists them as
\* input, local, input_iter1, local_iter1, ..., output.
C3_IterationExpansion ==
  Constructed =>
    /\ DOMAIN tensors = ExpectedTensorNames
    /\ IsChain => chronological_tensors = ChainOrder

\* a chain pipeline of three iterations was constructed
C3_Witness ==
  /\ Constructed
  /\ iterate = 3
  /\ IsChain
  /\ Len(chronological_tensors) = 7
  /\ Cardinality(DOMAIN tensors) = 7

\* a local or the output definition is named like the primary input
NameCollision ==
  /\ input_node.name # NoName
  /\ \/ output_node.name = input_node.name
     \/ \E k \in 1..Len(locals) : locals[k].name = input_node.name

\* C4: name collision rejection.  Once the tensors have been built (line 213),
\* a construction in which a local or the output is named like the primary
\* input has ended with SemanticError, and the scheduler has assigned nothing.
C4_CollisionRejected ==
  (NameCollision /\ pc \notin {"start", "config", "check", "expand", "tensors"}) =>
    /\ pc = "error"
    /\ err.kind = "SemanticError"
    /\ processed_tensors = {}

\* the input and output definitions differ in scalar type or channel count
KindMismatch ==
  input_node.type # output_node.type \/ input_node.chan # output_node.chan

\* the SemanticError of lines 150 and 152, with both types / both counts
MismatchError ==
  IF input_node.type # output_node.type
  THEN [kind |-> "SemanticError", msg |-> "input must have the same type as output",
        args |-> <<input_node.type, output_node.type>>]
  ELSE [kind |-> "SemanticError",
        msg |-> "input must have the same number of channel as output",
        args |-> <<input_node.chan, output_node.chan>>]

\* C5: iteration validation.  Past the test of lines 148-153, a construction
\* with iterate > 1 whose input and output differ in type or channel count has
\* failed with a SemanticError naming both types (or both counts), and no
\* tensor or stage exists; with iterate = 1 the mismatch raises no
\* SemanticError.
C5_IterationValidation ==
  (KindMismatch /\ pc \notin {"start", "config", "check"}) =>
    /\ iterate > 1 =>
         /\ pc = "error"
         /\ err = MismatchError
         /\ tensors = EmptyMap
         /\ stages = EmptyMap
    /\ iterate = 1 => err.kind # "SemanticError"

\* iterate > 1 with one channel against two: rejected naming both counts
C5_Witness ==
  /\ pc = "error"
  /\ iterate > 1
  /\ input_node.type = output_node.type
  /\ err.kind = "SemanticError"
  /\ err.args = <<2, 1>>

\* iterate = 1 with a mismatch: construction returns
C5_AcceptedWitness ==
  Constructed /\ iterate = 1 /\ KindMismatch /\ Cardinality(DOMAIN stages) > 1

\* C6: scheduler termination.  Once the scheduling loop has started it
\* eventually empties its work queue and the constructor goes on to the end.
C6_SchedulerTerminates == (pc = "sched") ~> Constructed

\* C7: a disconnected graph is an internal error.  Construction never returns
\* with a tensor that has a producing stage and was not processed.
C7_DisconnectedIsError ==
  Constructed => \A s \in DOMAIN stages : s \in processed_tensors

\* when tensor x is available for stage s, in the state before s is scheduled
InputConstraint(s, x) ==
  tensors[x].offset + MaxWindowOffset(s, x) - Serialize(stages[s].idx, tile_size)

\* stage s is scheduled in this step (lines 268-352)
Scheduled(s) ==
  pc = "visit" /\ s \notin processed_tensors /\ s \in processed_tensors'

\* C8 as the specification states it: when a stage s is scheduled its output
\* offset becomes the maximum of the input constraints and of the seed, the
\* stage's own serialized store offset.
C8_SeededByStoreOffset ==
  [][\A s \in DOMAIN stages : Scheduled(s) =>
       tensors'[s].offset =
         SetMax({Serialize(stages[s].idx, tile_size)}
                \cup {InputConstraint(s, x) : x \in stages[s].inputs})]_vars

\* C8 as the code has it: when a stage s is scheduled its output offset
\* becomes the maximum of the input constraints and of the seed, which is the
\* offset the output tensor had before (0, the default of Tensor.__init__).
C8_SeededByTensorOffset ==
  [][\A s \in DOMAIN stages : Scheduled(s) =>
       /\ tensors[s].offset = 0
       /\ tensors'[s].offset =
            SetMax({0} \cup {InputConstraint(s, x) : x \in stages[s].inputs})]_vars

\* a stage storing at index (1, 0) was scheduled at offset 0, and another
\* stage at a positive offset
C8_Witness ==
  /\ \E j \in 2..Len(chronological_tensors) :
       /\ Serialize(stages[chronological_tensors[j]].idx, tile_size) = 1
       /\ tensors[chronological_tensors[j]].offset = 0
  /\ \E j \in 2..Len(chronological_tensors) :
       tensors[chronological_tensors[j]].offset > 0

\* C9: non-negative delays.  After construction every stage.delay[x] is >= 0,
\* whether the scheduler or the border pass stored it.
C9_NonNegativeDelays ==
  Constructed =>
    \A s \in DOMAIN stages : \A x \in DOMAIN stages[s].delay : stages[s].delay[x] >= 0

\* the same, when the output is not named like the input
C9_NonNegativeDelaysNoCollision ==
  (Constructed /\ input_in_tensors) =>
    \A s \in DOMAIN stages : \A x \in DOMAIN stages[s].delay : stages[s].delay[x] >= 0

\* the graph is assembled: lines 215-244 are done
Assembled == pc \in {"borders", "sched_init", "sched", "visit", "done"}

\* C10: graph wiring.  After graph assembly, during and after scheduling and
\* after the border pass: every stage is the parent of its output, is a child
\* of each of its inputs, and every child of a tensor has it among its inputs.
C10_Wiring ==
  Assembled =>
    /\ \A s \in DOMAIN stages :
         /\ stages[s].output \in DOMAIN tensors
         /\ tensors[stages[s].output].parent = s
         /\ \A x \in stages[s].inputs : x \in DOMAIN tensors /\ s \in tensors[x].children
    /\ \A x \in DOMAIN tensors :
         \A s \in tensors[x].children : s \in DOMAIN stages /\ x \in stages[s].inputs

\* the border pass attached an input the stage did not read
C10_Witness ==
  /\ Constructed
  /\ \E s \in DOMAIN stages :
       \E x \in stages[s].inputs : x \notin DOMAIN stages[s].offset /\ s \in tensors[x].children

\* the stages the scheduler scheduled, in order (line 352)
ScheduledStages == {chronological_tensors[j] : j \in 2..Len(chronological_tensors)}

Returned == pc = "done" /\ err = NoErr /\ "forwardings" \in attrs

\* the tap offset of the window point of rank idx (from 1) of s on b, for the
\* unroll index u (lines 655 and 670)
TapOf(b, s, idx, u) ==
  SetMax(SeqRange(Offsets(s, b))) - Offsets(s, b)[idx] + stages[s].delay[b] + u

\* the ends of the links of b's reuse buffer
LinkEnds(b) == {l[2] : l \in SeqRange(reuse_buffers[b].links)}

\* the ranks stored in the point map of (b, s)
RanksOf(b, s) ==
  LET points == all_points[b].points[s]
  IN UNION {{points[t][lane] : lane \in DOMAIN points[t]} : t \in DOMAIN points}

TapsCovered ==
  \A b \in GetProducerTensors : \A s \in tensors[b].children :
    \A u \in 0..(unroll_factor - 1) : \A idx \in 1..Len(Offsets(s, b)) :
      /\ TapOf(b, s, idx, u) \in DOMAIN all_points[b].points[s]
      /\ TapOf(b, s, idx, u) \in LinkEnds(b)

RanksCovered ==
  \A b \in GetProducerTensors : \A s \in tensors[b].children :
    \A idx \in 1..Len(Offsets(s, b)) : (idx - 1) \in RanksOf(b, s)

\* C12: when the accessors have returned, for every producer tensor b, every
\* consuming stage s, every unroll lane and every window point of s on b, the
\* tap offset of the point is a key of the point map of (b, s) and the end of
\* a link of b's reuse buffer; and every window rank of s is a value of the
\* point map, also when two window vectors serialize to the same scalar.
C12_ReuseChainCoverage == Returned => (TapsCovered /\ RanksCovered)

\* the part of C12 the code keeps: every tap offset is a key of the point map
\* and the end of a link
C12_TapsCovered == Returned => TapsCovered

\* two points of a window serialize to the same scalar (line 666)
TiedWindow(s, b) ==
  \E i, j \in 1..Len(Offsets(s, b)) : i # j /\ Offsets(s, b)[i] = Offsets(s, b)[j]

\* the accessors returned for a stage with two lanes and a window of two
\* points without ties
C12_Witness ==
  /\ Returned
  /\ unroll_factor = 2
  /\ \E b \in GetProducerTensors : \E s \in tensors[b].children :
       Len(Offsets(s, b)) = 2 /\ ~TiedWindow(s, b)

\* the accessors returned for a stage whose window has a tie
C12_TieWitness ==
  /\ Returned
  /\ \E b \in GetProducerTensors : \E s \in tensors[b].children : TiedWindow(s, b)

\* every rank is a value of the point map when no window has a tie
C12_RanksCoveredWithoutTies ==
  (Returned /\ \A b \in GetProducerTensors : \A s \in tensors[b].children : ~TiedWindow(s, b))
    => RanksCovered

\* the (stage, lane) pairs that read the tap t of b (all_points[b])
Readers(b, t) ==
  {<<s, lane>> \in (DOMAIN all_points[b].points) \X (0..(unroll_factor - 1)) :
     /\ t \in DOMAIN all_points[b].points[s]
     /\ lane \in DOMAIN all_points[b].points[s][t]}

\* the (stage, lane) pairs the output ports of a descriptor lead to
PortReaders(d) ==
  {<<d.outputs[k].dst, d.outputs[k].pe>> :
     k \in {j \in 1..Len(d.outputs) : d.outputs[j].port = "to"}}

\* C13: when the accessors have returned, for every tensor with a consumer,
\* the taps of all_points are exactly the taps that have a forwarding
\* descriptor, and a descriptor's output ports are one per (stage, lane) pair
\* reading the tap, plus one when next_fifo has a link starting at the tap.
C13_ForwardingCompleteness ==
  Returned =>
    \A b \in GetProducerTensors :
      /\ DOMAIN forwardings[b] = Taps(all_points[b])
      /\ \A t \in Taps(all_points[b]) :
           LET d == forwardings[b][t]
           IN /\ Len(d.outputs) = Cardinality(Readers(b, t))
                                    + (IF t \in DOMAIN next_fifo[b] THEN 1 ELSE 0)
              /\ PortReaders(d) = Readers(b, t)

\* a tap with a next-tap link is read by two stages
C13_Witness ==
  /\ Returned
  /\ \E b \in GetProducerTensors : \E t \in Taps(all_points[b]) :
       /\ t \in DOMAIN next_fifo[b]
       /\ \E p, q \in Readers(b, t) : p[1] # q[1]

\* every stage reading b has a delay entry for b (the lookup of lines 655 and
\* 670)
DelaysRecorded ==
  \A b \in GetProducerTensors : \A s \in tensors[b].children : b \in DOMAIN stages[s].delay

\* every one of the unroll_factor chains of b is non-empty (chain[0], line 681)
ChainsNonEmpty ==
  \A b \in GetProducerTensors :
    \A k \in 1..unroll_factor : GetChains(b, unroll_factor)[k] # <<>>

\* every tap of all_points[b] has a reuse-buffer length (line 541)
LengthsRecorded ==
  \A b \in DOMAIN all_points : Taps(all_points[b]) \subseteq DOMAIN reuse_buffer_lengths[b]

\* the accessors complete on the constructed Stencil
AccessorsTotal ==
  /\ pc # "forwardings"
  /\ Constructed =>
       /\ DelaysRecorded
       /\ ChainsNonEmpty
       /\ attrs # {} => (Returned /\ LengthsRecorded)

\* C14: for every successfully constructed Stencil, GetReuseBuffers,
\* GetAllPoints, GetNextFIFO, GetForwardings(b) for every producer b and
\* GetForwarders complete without a failed lookup: every chain of b is
\* non-empty, every stage in b.children has a delay entry for b, and every
\* tap of all_points[b] has a recorded reuse-buffer length.
C14_AccessorTotality == AccessorsTotal

\* the accessors complete on every Stencil all of whose stages the scheduler
\* scheduled
C14_TotalWhenAllScheduled ==
  (DOMAIN stages \subseteq ScheduledStages) => AccessorsTotal

\* the replicated accessors have been called on the constructed Stencil and
\* returned
ReplicatedReturned == pc = "done" /\ err = NoErr /\ "replicated_all_points" \in attrs

\* the ends of the links of b's replicated reuse buffer
ReplicatedLinkEnds(b) == {l[2] : l \in SeqRange(replicated_reuse_buffers[b].links)}

\* C16 as the specification states it: the replicated tap offsets carry no
\* delay term; the taps of the replicated points of (b, s) are max_offset - x
\* for x in the serialized window of s on b, and b's replicated reuse chains
\* hold these taps of all stages s.
C16_ReplicatedOmitsDelay ==
  ReplicatedReturned =>
    \A b \in GetProducerTensors :
      /\ \A s \in tensors[b].children :
           DOMAIN replicated_all_points[b][s] =
             {SetMax(SeqRange(Offsets(s, b))) - x : x \in SeqRange(Offsets(s, b))}
      /\ ReplicatedLinkEnds(b) =
           UNION {{SetMax(SeqRange(Offsets(s, b))) - x : x \in SeqRange(Offsets(s, b))} :
                  s \in tensors[b].children}

\* C16 as the code has it: the replicated tap offsets carry the stage delay
\* as the unrolled ones do and no lane term; the taps of the replicated points
\* of (b, s) are max_offset - x + s.delay[b], b's replicated reuse buffer
\* links exactly these taps of all stages s, within a residue class modulo
\* replication_factor in ascending order, and next_fifo and the lengths come
\* from the links as in the unrolled variant.
C16_ReplicatedKeepsDelay ==
  ReplicatedReturned =>
    \A b \in GetProducerTensors :
      /\ \A s \in tensors[b].children :
           DOMAIN replicated_all_points[b][s] =
             {TapOf(b, s, idx, 0) : idx \in 1..Len(Offsets(s, b))}
      /\ ReplicatedLinkEnds(b) =
           UNION {DOMAIN replicated_all_points[b][s] : s \in tensors[b].children}
      /\ \A l \in SeqRange(replicated_reuse_buffers[b].links) :
           /\ l[1] <= l[2]
           /\ l[1] % replication_factor = l[2] % replication_factor
           /\ l[1] \in ReplicatedLinkEnds(b)
      /\ replicated_reuse_buffers[b].length = SetMax(ReplicatedLinkEnds(b)) + 1
      /\ DOMAIN replicated_next_fifo[b] =
           {l[1] : l \in {x \in SeqRange(replicated_reuse_buffers[b].links) : x[1] < x[2]}}
      /\ DOMAIN replicated_reuse_buffer_lengths[b] = ReplicatedLinkEnds(b)

\* the replicated accessors returned for a stage with a positive delay, a
\* window of two points and a replication factor of 2
C16_Witness ==
  /\ ReplicatedReturned
  /\ replication_factor = 2
  /\ \E b \in GetProducerTensors : \E s \in tensors[b].children :
       /\ stages[s].delay[b] > 0
       /\ Len(Offsets(s, b)) = 2
       /\ Cardinality(DOMAIN replicated_all_points[b][s]) = 2

\* the taps of b: the tap offsets of all lanes and window points of the stages
\* reading b
TapSet(b) ==
  UNION {{TapOf(b, s, idx, u) : idx \in 1..Len(Offsets(s, b)), u \in 0..(unroll_factor - 1)} :
         s \in tensors[b].children}

\* the taps of T greater than t of the residue of t
LaterTaps(T, t) ==
  {x \in T : x > t /\ x % unroll_factor = t % unroll_factor}

\* C20: when the accessors have returned, for every producer tensor b the
\* links of GetReuseBuffers()[b] end at every tap exactly once; the chains
\* appear in descending residue order modulo unroll_factor, every residue has
\* a chain, each chain is strictly ascending and starts with the self-link of
\* its smallest tap, every other link leads from a tap to the next greater tap
\* of the same residue; length is the largest tap + 1; and next_fifo[b] maps
\* start to end for exactly the non-self links.
C20_ReuseChainStructure ==
  Returned =>
    \A b \in GetProducerTensors :
      LET links == reuse_buffers[b].links
          U == unroll_factor
          T == TapSet(b)
      IN /\ LinkEnds(b) = T
         /\ Len(links) = Cardinality(T)
         /\ {t % U : t \in T} = 0..(U - 1)
         /\ \A i \in 1..Len(links) :
              IF i = 1 \/ links[i][2] % U # links[i - 1][2] % U
              THEN /\ links[i][1] = links[i][2]
                   /\ \A x \in T : x % U = links[i][2] % U => links[i][2] <= x
                   /\ i > 1 => links[i][2] % U < links[i - 1][2] % U
              ELSE /\ links[i][1] = links[i - 1][2]
                   /\ links[i][1] < links[i][2]
                   /\ links[i][2] = SetMin(LaterTaps(T, links[i][1]))
         /\ reuse_buffers[b].length = SetMax(T) + 1
         /\ DOMAIN next_fifo[b] = {t \in T : LaterTaps(T, t) # {}}
         /\ \A t \in DOMAIN next_fifo[b] : next_fifo[b][t] = SetMin(LaterTaps(T, t))

\* the accessors returned for a tensor with two chains, one of them with a
\* link between two taps
C20_Witness ==
  /\ Returned
  /\ unroll_factor = 2
  /\ \E b \in GetProducerTensors :
       /\ DOMAIN next_fifo[b] # {}
       /\ Len(reuse_buffers[b].links) >= 3

\* Serialize has returned
Serialized == pc = "serialized"

\* C17 as the specification states it: for all tile sizes T and index vectors
\* v, Serialize(v, T) grows strictly when one component of v grows and the
\* others stay, and Serialize of the zero vector is 0.
C17_StrictlyIncreasing ==
  Serialized =>
    /\ \A d \in 1..Len(arg_vec) : serialized.bumped[d] > serialized.value
    /\ serialized.zero = 0

\* C17 as the code has it: Serialize is linear; raising component d of v by
\* one raises Serialize(v, T) by the product of the tile entries before d (1
\* for the first component), so it grows strictly in component d exactly when
\* that product is positive, whatever the last tile entry is; Serialize of the
\* zero vector is 0.
C17_Linear ==
  Serialized =>
    /\ \A d \in 1..Len(arg_vec) :
         /\ serialized.bumped[d] - serialized.value = Product(SubSeq(tile_size, 1, d - 1))
         /\ (serialized.bumped[d] > serialized.value)
              <=> (\A k \in 1..(d - 1) : tile_size[k] > 0)
    /\ serialized.zero = 0

\* Serialize returned for the tile size (233, 0) and a vector with a
\* non-zero second component
C17_Witness ==
  /\ Serialized
  /\ tile_size = <<233, 0>>
  /\ arg_vec[2] # 0
  /\ serialized.value = arg_vec[1] + 233 * arg_vec[2]

\* C18: constructing a Stencil with iterate < 1 raises SemanticError('cannot
\* iterate ...') and nothing else of the constructor runs: no other
\* configuration field is read, no tensor and no stage is built.
C18_InvalidIterate ==
  (pc # "start" /\ pc # "serialize" /\ pc # "serialized" /\ iterate < 1) =>
    /\ pc = "error"
    /\ err = [kind |-> "SemanticError", msg |-> "cannot iterate", args |-> <<iterate>>]
    /\ border = NoName /\ tile_size = <<>>
    /\ unroll_factor = 0 /\ replication_factor = 0
    /\ extra_params = {} /\ input_node.name = NoName /\ output_node.name = NoName
    /\ locals = <<>> /\ local_names = {} /\ preserved_borders = EmptyMap
    /\ tensors = EmptyMap /\ stages = EmptyMap
    /\ chronological_tensors = <<>> /\ processed_tensors = {}
    /\ attrs = {}

\* the constructor was given iterate = 0 and raised
C18_Witness == pc = "error" /\ iterate = 0 /\ err.kind = "SemanticError"

\* the step is one of the scheduler's loop (lines 262-363): a pop or the
\* visit of a stage
Scheduling == (pc = "sched" \/ pc = "visit") /\ (pc' = "sched" \/ pc' = "visit")

\* the stage the step visits (line 265)
Visited(s) == pc = "visit" /\ s \in todo /\ s \notin todo'

\* no name occurs twice in the list
NoRepeat(list) == \A i, j \in 1..Len(list) : list[i] = list[j] => i = j

\* one step of the scheduler keeps what C19 states
ScheduledOnceStep ==
  /\ \A s \in DOMAIN stages :
       Scheduled(s) =>
         /\ stages[s].inputs \subseteq processed_tensors
         /\ chronological_tensors' = Append(chronological_tensors, s)
         /\ processing_queue' = Append(processing_queue, s)
  /\ processed_tensors \subseteq processed_tensors'
  /\ \A t \in processed_tensors \cap DOMAIN tensors :
       /\ tensors'[t].offset = tensors[t].offset
       /\ t \in DOMAIN stages => stages'[t].delay = stages[t].delay
  /\ \A s \in processed_tensors \cap DOMAIN stages :
       Visited(s) =>
         UNCHANGED <<tensors, stages, processed_tensors, chronological_tensors, processing_queue>>

\* C19: during scheduling a stage is processed only when all of its input
\* tensors are processed; a tensor is processed at most once (appended once to
\* chronological_tensors and once, as processed, to the queue); the offset of
\* a processed tensor and the delays of its stage do not change any more; and
\* visiting again a stage that is processed changes nothing.
C19_ScheduledOnce ==
  /\ [](NoRepeat(chronological_tensors))
  /\ [][Scheduling => ScheduledOnceStep]_vars

\* C19 for the Stencils whose output is not named like the input: there the
\* processed set holds, besides the input, only stages the scheduler
\* processed
C19_ScheduledOnceNoCollision ==
  /\ [](NoRepeat(chronological_tensors))
  /\ [][(Scheduling /\ input_in_tensors) => ScheduledOnceStep]_vars

\* a tensor was popped again, the output not being named like the input, and
\* the loop of line 265 comes to a stage that is processed already
C19_Witness ==
  /\ pc = "visit"
  /\ input_in_tensors
  /\ todo \cap processed_tensors # {}

\* the key GetOverallStencilWindow looks up for the tensors src and dst of
\* this Stencil (line 840)
CacheKey(src, dst) == <<ids[src], ids[dst]>>

\* every set the memo holds under the key of two tensors of this Stencil is
\* the set lines 843-851 compute on the graph as it is
CachedEqualsFresh ==
  \A src, dst \in DOMAIN tensors :
    CacheKey(src, dst) \in DOMAIN overall_stencil_window_cache =>
      overall_stencil_window_cache[CacheKey(src, dst)]
        = GetOverallStencilWindow(src, dst, tensors, stages)

\* the pairs (src, dst) lines 371 and 552 call GetOverallStencilWindow with
BorderPairs ==
  {<<AllNodes[k].preserve_border, AllNodes[k].name>> :
     k \in {j \in 1..Len(AllNodes) : AllNodes[j].preserve_border # NoName}}

\* the set a call of line 371 or 552 returns on the constructed Stencil is
\* the memoized one, and it is the fresh one
BorderWindowsFresh ==
  \A p \in BorderPairs :
    /\ CacheKey(p[1], p[2]) \in DOMAIN overall_stencil_window_cache
    /\ overall_stencil_window_cache[CacheKey(p[1], p[2])]
         = GetOverallStencilWindow(p[1], p[2], tensors, stages)
    /\ SelfWindow(p[2]) = GetOverallStencilWindow(p[1], p[2], tensors, stages)

\* the delay the border pass stored for each node with preserve_border is
\* the one of the overall window of the finalized graph (line 372)
BorderDelaysFresh ==
  \A k \in 1..Len(AllNodes) :
    LET node == AllNodes[k]
        w == GetOverallStencilWindow(node.preserve_border, node.name, tensors, stages)
    IN (node.preserve_border # NoName
        /\ node.preserve_border \notin LoadNames(node)) =>
         stages[node.name].delay[node.preserve_border]
           = GetStencilDistance(w, tile_size) - Serialize(GetStencilWindowOffset(w), tile_size)

\* C15: on a constructed Stencil, whichever Stencils the process constructed
\* before it, GetOverallStencilWindow returns for two of its tensors the set a
\* fresh computation on the finalized graph gives: a repeated call returns the
\* memoized set, and every memoized set of two of its tensors is the fresh
\* one, also when the tensors got the ids of tensors of a discarded Stencil.
C15_CacheCorrectness == Constructed => (BorderWindowsFresh /\ BorderDelaysFresh)

\* C15 for the first Stencil of a process: the memo starts empty, and the
\* sets it holds after the constructor are the fresh ones
C15_FirstStencil ==
  (Constructed /\ stencils_built = 1) =>
    (CachedEqualsFresh /\ BorderWindowsFresh /\ BorderDelaysFresh)

\* the first Stencil is constructed and its border pass has memoized a window
C15_FirstWitness ==
  /\ Constructed
  /\ stencils_built = 1
  /\ \E src, dst \in DOMAIN tensors :
       /\ CacheKey(src, dst) \in DOMAIN overall_stencil_window_cache
       /\ Cardinality(overall_stencil_window_cache[CacheKey(src, dst)]) > 1

\* a later Stencil is constructed whose tensors have the ids of tensors of a
\* discarded one
C15_ReusedIds ==
  /\ Constructed
  /\ stencils_built > 1
  /\ \E src, dst \in DOMAIN tensors :
       /\ tensors[dst].border.kind = "none"
       /\ stages[dst].border = src
       /\ CacheKey(src, dst) \in DOMAIN overall_stencil_window_cache
       /\ ~CachedEqualsFresh

\* n / U by exact division is q, a non-negative integer
ExactQuotient(n, U, q) == q * U = n /\ q >= 0

\* the reuse buffers and lengths an accessor stored, with their factor
BuffersStored ==
  (IF Returned THEN {[links |-> reuse_buffers[b].links, lengths |-> reuse_buffer_lengths[b],
                      U |-> unroll_factor] : b \in DOMAIN reuse_buffers} ELSE {})
  \cup
  (IF ReplicatedReturned
   THEN {[links |-> replicated_reuse_buffers[b].links,
          lengths |-> replicated_reuse_buffer_lengths[b],
          U |-> replication_factor] : b \in DOMAIN replicated_reuse_buffers} ELSE {})

\* C21: for every link (start, end) of a reuse buffer (and of a replicated
\* one) the length recorded at end is (end - start) / U, a non-negative
\* integer got by exact division, except when start < U, where it is end / U
\* (read here as the quotient rounded down, which for start < U is
\* (end - start) / U).
C21_RegisterLengthRule ==
  \A buf \in BuffersStored :
    \A l \in SeqRange(buf.links) :
      IF l[1] < buf.U
      THEN buf.lengths[l[2]] = l[2] \div buf.U
      ELSE ExactQuotient(l[2] - l[1], buf.U, buf.lengths[l[2]])

\* the link (start, end) is the first link of its lane (line 443): the
\* self-link that opens a chain
OpensChain(l) == l[1] = l[2]

\* C21 as the code has it: the length recorded at end is (end - start) // U,
\* except for the link that opens a lane's chain at a tap start >= U, whose
\* length is end // U (floor division); every recorded length is a
\* non-negative integer.
C21_RegisterLengthFirstInLane ==
  \A buf \in BuffersStored :
    \A l \in SeqRange(buf.links) :
      /\ buf.lengths[l[2]] >= 0
      /\ IF OpensChain(l) /\ l[1] >= buf.U
         THEN buf.lengths[l[2]] = l[2] \div buf.U
         ELSE ExactQuotient(l[2] - l[1], buf.U, buf.lengths[l[2]])

\* the output is not named like the input; a chain opens at a tap at or
\* above the factor that is no multiple of it, and a chain has a forward link
C21_Witness ==
  /\ input_in_tensors
  /\ \E buf \in BuffersStored :
       /\ \E l \in SeqRange(buf.links) :
            OpensChain(l) /\ l[1] >= buf.U /\ l[1] % buf.U # 0
       /\ \E l \in SeqRange(buf.links) : l[1] < l[2]

\* the point map of (b, s) holds rank idx - 1 under the tap of the window
\* point of rank idx for lane u, keyed by unroll_factor - 1 - u (line 670)
PointMapped(b, s, idx, u) ==
  LET points == all_points[b].points[s]
      tap == TapOf(b, s, idx, u)
  IN /\ tap \in DOMAIN points
     /\ (unroll_factor - 1 - u) \in DOMAIN points[tap]
     /\ points[tap][unroll_factor - 1 - u] = idx - 1

\* C22: when the accessors have returned, for every producer tensor b,
\* consuming stage s, lane u and window point of rank idx, the point map of
\* (b, s) sends the tap max_offset - off + delay + u and the lane key
\* U - 1 - u to idx: no (stage, tap, lane) key is written with two ranks.
C22_PointMapping ==
  Returned =>
    \A b \in GetProducerTensors : \A s \in tensors[b].children :
      \A u \in 0..(unroll_factor - 1) : \A idx \in 1..Len(Offsets(s, b)) :
        PointMapped(b, s, idx, u)

\* C22 for the windows in which no two points serialize to the same scalar
C22_PointMappingWithoutTies ==
  Returned =>
    \A b \in GetProducerTensors : \A s \in tensors[b].children :
      ~TiedWindow(s, b) =>
        \A u \in 0..(unroll_factor - 1) : \A idx \in 1..Len(Offsets(s, b)) :
          PointMapped(b, s, idx, u)

\* the accessors returned for two lanes and a stage that reads a window of
\* two points without ties at a positive delay
C22_Witness ==
  /\ Returned
  /\ unroll_factor = 2
  /\ \E b \in GetProducerTensors : \E s \in tensors[b].children :
       /\ ~TiedWindow(s, b)
       /\ Len(Offsets(s, b)) = 2
       /\ stages[s].delay[b] > 0

\* the tensor b is the primary input, self.input
PrimaryInput(b) == b = input_node.name /\ input_in_tensors

\* the condition of the claim for border ports at the tap t of b: b has a
\* preserve-border target, t is below unroll_factor, b is not the primary
\* input
BorderTap(b, t) ==
  /\ tensors[b].border.kind = "preserve" /\ tensors[b].border.stages # {}
  /\ t < unroll_factor
  /\ ~PrimaryInput(b)

\* the input ports of the descriptor d: the tap read, then a left and a right
\* border port per dimension but the last
BorderInputs(d) ==
  /\ Len(d.inputs) = 1 + 2 * (Dim - 1)
  /\ d.inputs[1].port = "tap"
  /\ \A k \in 1..(Dim - 1) :
       /\ d.inputs[2 * k].port = "left" /\ d.inputs[2 * k].dim = k - 1
       /\ d.inputs[2 * k + 1].port = "right" /\ d.inputs[2 * k + 1].dim = k - 1

\* C23: when the accessors have returned, the descriptor of a tap is named
\* forward_{tensor} and has 2 * (dim - 1) border input ports besides the tap
\* read exactly when the tensor has a preserve-border target, the tap is
\* below unroll_factor and the tensor is not the primary input; otherwise it
\* is named forward and has one input port.  GetForwardersWithBorder lists
\* (tensor, output-port count) of the bordered descriptors and GetForwarders
\* the sorted distinct output-port counts of the others.
C23_BorderPortCondition ==
  Returned =>
    /\ \A b \in GetProducerTensors : \A t \in Taps(all_points[b]) :
         LET d == forwardings[b][t]
         IN IF BorderTap(b, t)
            THEN d.func_name = "forward_" \o b /\ BorderInputs(d)
            ELSE d.func_name = "forward" /\ Len(d.inputs) = 1 /\ d.inputs[1].port = "tap"
    /\ forwarders_with_border =
         UNION {{<<b, Len(forwardings[b][t].outputs)>> :
                   t \in {x \in Taps(all_points[b]) : BorderTap(b, x)}} :
                b \in GetProducerTensors}
    /\ forwarders =
         Sorted(UNION {{Len(forwardings[b][t].outputs) :
                          t \in {x \in Taps(all_points[b]) : ~BorderTap(b, x)}} :
                       b \in GetProducerTensors})

\* the accessors returned with a bordered descriptor, a plain descriptor of
\* the same tensor at a tap not below unroll_factor, and a plain descriptor
\* of the primary input, which has a preserve-border target
C23_Witness ==
  /\ Returned
  /\ \E b \in GetProducerTensors :
       /\ \E t \in Taps(all_points[b]) : BorderTap(b, t)
       /\ \E t \in Taps(all_points[b]) : ~BorderTap(b, t)
  /\ \E b \in GetProducerTensors :
       /\ PrimaryInput(b)
       /\ tensors[b].border.kind = "preserve"
       /\ \E t \in Taps(all_points[b]) : t < unroll_factor

\* the positions of the sequence ports at which the field f is v
Positions(ports, f, v) == {k \in 1..Len(ports) : ports[k][f] = v}

\* the descriptor d of the tap t of b has the tap read, the next-tap port and
\* epoch_num once each, epoch_num last and the next-tap port last
Deduplicated(b, t, d) ==
  /\ Cardinality(Positions(d.inputs, "port", "tap")) = 1
  /\ d.inputs[1] = [port |-> "tap", offset |-> t]
  /\ Positions(d.outputs, "port", "next")
       = (IF t \in DOMAIN next_fifo[b] THEN {Len(d.outputs)} ELSE {})
  /\ t \in DOMAIN next_fifo[b] =>
       d.outputs[Len(d.outputs)] = [port |-> "next", offset |-> next_fifo[b][t]]
  /\ Positions(d.params, "param", "epoch_num") = {Len(d.params)}

\* C24: when the accessors have returned, every tap of every producer tensor
\* has one descriptor in which the tap-read input port, the next-tap output
\* port (when next_fifo has a link from the tap) and the epoch_num parameter
\* appear exactly once, however many stages read the tap; epoch_num is the
\* last parameter and the next-tap port the last output port.
C24_DescriptorDeduplication ==
  Returned =>
    \A b \in GetProducerTensors : \A t \in Taps(all_points[b]) :
      Deduplicated(b, t, forwardings[b][t])

\* two stages read the same tap of a tensor: once a tap with a next-tap link,
\* once a tap with border ports
C24_Witness ==
  /\ Returned
  /\ \E b \in GetProducerTensors : \E t \in Taps(all_points[b]) :
       /\ t \in DOMAIN next_fifo[b]
       /\ Cardinality({r[1] : r \in Readers(b, t)}) > 1
  /\ \E b \in GetProducerTensors : \E t \in Taps(all_points[b]) :
       /\ Bordered(b, t)
       /\ Cardinality({r[1] : r \in Readers(b, t)}) > 1

\* the tensors the stage of a tensor of S reads, and those they come from,
\* over at most n producer edges
RECURSIVE Upstream(_, _)
Upstream(S, n) ==
  IF n = 0 THEN {}
  ELSE LET read == UNION {DOMAIN stages[t].window : t \in S \cap DOMAIN stages}
       IN read \cup Upstream(read, n - 1)

\* no tensor is produced from itself
Acyclic == \A t \in DOMAIN tensors : t \notin Upstream({t}, Cardinality(DOMAIN tensors))

\* the sums of the relative offsets (window point minus the store index of
\* the reading stage) along every producer path of at most n stages that
\* leads from the tensor from down to dst, acc being the sum up to from
RECURSIVE PathSums(_, _, _, _)
PathSums(from, dst, acc, n) ==
  IF n = 0 THEN {}
  ELSE UNION {UNION {LET a == VecAddSub(acc, p, stages[s].idx)
                     IN (IF s = dst THEN {a} ELSE {}) \cup PathSums(s, dst, a, n - 1) :
                     p \in SeqRange(stages[s].window[from])} :
              s \in {x \in DOMAIN stages : from \in DOMAIN stages[x].window}}

\* C25: on a constructed Stencil with an acyclic graph,
\* GetOverallStencilWindow(src, consumer) has a value for every two tensors;
\* it is empty when the consumer has no producing stage, and otherwise it is
\* the set of the summed relative offsets along every producer path from the
\* consumer back to src: the set lines 843-851 compute is this set, and so
\* is the set the memo holds for the two tensors, which a call returns.
C25_OverallWindowComposition ==
  (Constructed /\ Acyclic) =>
    \A src, dst \in DOMAIN tensors :
      LET w == GetOverallStencilWindow(src, dst, tensors, stages)
          sums == PathSums(src, dst, [d \in 1..Dim |-> 0], Cardinality(DOMAIN tensors))
      IN /\ tensors[dst].parent = NoName => w = {}
         /\ w = sums
         /\ CacheKey(src, dst) \in DOMAIN overall_stencil_window_cache =>
              overall_stencil_window_cache[CacheKey(src, dst)] = sums

\* a constructed acyclic graph in which a consumer is reached from a tensor
\* along two producer paths of different length, and the overall window has
\* more than two points
C25_Witness ==
  /\ Constructed
  /\ Acyclic
  /\ \E src \in DOMAIN tensors : \E dst \in DOMAIN stages :
       /\ src \in DOMAIN stages[dst].window
       /\ \E mid \in DOMAIN stages[dst].window \cap DOMAIN stages :
            mid # src /\ src \in DOMAIN stages[mid].window
       /\ stages[dst].idx # <<0, 0>>
       /\ CacheKey(src, dst) \in DOMAIN overall_stencil_window_cache
       /\ Cardinality(overall_stencil_window_cache[CacheKey(src, dst)]) > 2

\* the sequence of integers is in ascending order
Ascending(seq) == \A i, j \in 1..Len(seq) : i < j => seq[i] <= seq[j]

\* s.offset[name] is the serialized window of s on name, ascending
OffsetMirrors(s, name) ==
  /\ name \in DOMAIN stages[s].offset
  /\ stages[s].offset[name] = SerializeIterative(stages[s].window[name], tile_size)
  /\ Ascending(stages[s].offset[name])

\* C26: in the finalized graph, for every stage s, s.offset has the keys of
\* s.window and s.offset[name] is the serialized window of s on name in
\* ascending order, also for the window entry the border pass adds for the
\* preserved source.
C26_OffsetMirrorsWindow ==
  Constructed =>
    \A s \in DOMAIN stages :
      /\ DOMAIN stages[s].offset = DOMAIN stages[s].window
      /\ \A name \in DOMAIN stages[s].window : OffsetMirrors(s, name)

\* C26 without the entry of the border pass: s.offset mirrors the windows of
\* the tensors the definition of s loads, and the only key of s.window that
\* s.offset can lack is the preserved source
C26_OffsetMirrorsLoadedWindows ==
  Assembled =>
    \A s \in DOMAIN stages :
      /\ DOMAIN stages[s].offset \subseteq DOMAIN stages[s].window
      /\ \A name \in DOMAIN stages[s].offset : OffsetMirrors(s, name)
      /\ DOMAIN stages[s].window \ DOMAIN stages[s].offset \subseteq {stages[s].border}
      /\ pc # "done" => DOMAIN stages[s].offset = DOMAIN stages[s].window

\* the border pass added a window entry to a stage that reads two points of
\* another tensor
C26_Witness ==
  /\ Constructed
  /\ \E s \in DOMAIN stages :
       /\ stages[s].border # NoName
       /\ stages[s].border \notin DOMAIN stages[s].offset
       /\ \E name \in DOMAIN stages[s].offset : Len(stages[s].offset[name]) = 2

-----------------------------------------------------------------------------
\* the preserved-borders index is resolved: lines 247-254 are done
BordersResolved == Assembled /\ pc # "borders"

\* tensor t lists stage s in its border set
InBorderSet(t, s) == tensors[t].border.kind = "preserve" /\ s \in tensors[t].border.stages

\* the edges of the graph are exactly the loads of the definitions
EdgesAreLoads ==
  /\ \A s \in DOMAIN stages : stages[s].inputs = DOMAIN stages[s].offset
  /\ \A x \in DOMAIN tensors :
       tensors[x].children = {s \in DOMAIN stages : x \in DOMAIN stages[s].offset}

\* C27: border tags mirror each other.  With border policy preserve and
\* iterate = K, once the preserved-borders index is resolved the stage
\* I_iter{k} has border source I_iter{k-1} for k in 1..K-1 and the output stage
\* has border source I_iter{K-1}; a tensor t's border set contains stage s
\* exactly when the border source of s is t; with border policy ignore no
\* tensor and no stage has a border tag and after construction the edges are
\* exactly the loads, none added after scheduling.
C27_BorderTagsMirror ==
  /\ (BordersResolved /\ border = "preserve") =>
       /\ \A k \in 1..(iterate - 1) :
            /\ NameFromIter(input_node.name, k) \in DOMAIN stages
            /\ stages[NameFromIter(input_node.name, k)].border = NameFromIter(input_node.name, k - 1)
       /\ stages[output_node.name].border = NameFromIter(input_node.name, iterate - 1)
  /\ Assembled =>
       \A t \in DOMAIN tensors : \A s \in DOMAIN stages :
         InBorderSet(t, s) <=> (BordersResolved /\ stages[s].border = t)
  /\ (Assembled /\ border = "ignore") =>
       /\ \A t \in DOMAIN tensors : tensors[t].border.kind = "none"
       /\ \A s \in DOMAIN stages : stages[s].border = NoName
       /\ Constructed => EdgesAreLoads

\* three iterations with preserved borders were constructed: I_iter2 is tagged
\* with I_iter1, which lists it, and the output is tagged with I_iter2
C27_Witness ==
  /\ Constructed
  /\ border = "preserve"
  /\ iterate = 3
  /\ stages[NameFromIter(input_node.name, 2)].border = NameFromIter(input_node.name, 1)
  /\ InBorderSet(NameFromIter(input_node.name, 1), NameFromIter(input_node.name, 2))
  /\ stages[output_node.name].border = NameFromIter(input_node.name, 2)

\* an ignore-border pipeline was constructed and has edges
C27_IgnoreWitness ==
  /\ Constructed
  /\ border = "ignore"
  /\ \E s \in DOMAIN stages : stages[s].inputs # {}

-----------------------------------------------------------------------------
(* The schedule as a function of the definition graph alone: which stages are
   scheduled, at which offsets and with which delays, computed without a
   queue and without an order of visits. *)

\* the tensors the definition of stage s loads (lines 220, 234)
Loaded(s) == DOMAIN stages[s].offset

\* lines 258-259, 266-267, 351: the least set that holds the input's name and
\* every stage that loads something and loads only tensors of the set
RECURSIVE ProcessedClosure(_, _)
ProcessedClosure(P, n) ==
  LET new == {s \in DOMAIN stages \ P : Loaded(s) # {} /\ Loaded(s) \subseteq P}
  IN IF n = 0 \/ new = {} THEN P ELSE ProcessedClosure(P \cup new, n - 1)

ScheduledByGraph ==
  ProcessedClosure({input_node.name}, Cardinality(DOMAIN stages)) \ {input_node.name}

\* lines 298-319, 323: the offset of tensor t, n bounding the depth of the graph
RECURSIVE OffsetByGraph(_, _)
OffsetByGraph(t, n) ==
  IF n = 0 \/ t \notin ScheduledByGraph THEN 0
  ELSE SetMax({0} \cup {OffsetByGraph(x, n - 1) + TensorOffsetNoProducer(stages[t], x) :
                          x \in Loaded(t)})

\* lines 328-346, 372: the delays of stage s
DelayByGraph(s) ==
  LET n == Cardinality(DOMAIN stages)
      from == stages[s].border
      scheduled == IF s \in ScheduledByGraph
                   THEN [x \in Loaded(s) |->
                           Max2(OffsetByGraph(s, n)
                                - (OffsetByGraph(x, n) + TensorOffsetNoProducer(stages[s], x)), 0)]
                   ELSE EmptyMap
  IN IF from = NoName \/ from \in DOMAIN scheduled THEN scheduled
     ELSE LET w == GetOverallStencilWindow(from, s, tensors, stages)
          IN Put(scheduled, from,
                 GetStencilDistance(w, tile_size)
                 - Serialize(GetStencilWindowOffset(w), tile_size))

\* C28: the schedule is independent of the traversal order.  Whatever order
\* the children of a tensor were visited in and whatever order the queue was
\* served in, after construction every tensor has the offset and every stage
\* the delays that the definition graph alone determines, and
\* chronological_tensors lists the tensors that graph schedules; only its
\* order is left to the traversal.
C28_ScheduleIndependentOfOrder ==
  Constructed =>
    /\ \A t \in DOMAIN tensors :
         tensors[t].offset = OffsetByGraph(t, Cardinality(DOMAIN stages))
    /\ \A s \in DOMAIN stages : stages[s].delay = DelayByGraph(s)
    /\ SeqRange(chronological_tensors) = ScheduledByGraph \cup {input_node.name}

\* a join was constructed whose inputs were processed in the other order than
\* the definition lists them: the output reads I and A, at different offsets
C28_Witness ==
  /\ Constructed
  /\ \E s \in DOMAIN stages :
       /\ Cardinality(Loaded(s)) = 2
       /\ s \in ScheduledByGraph
       /\ \E x \in Loaded(s) : stages[s].delay[x] > 0
       /\ tensors[s].offset > 0

-----------------------------------------------------------------------------
(* locals and output_node are the caller's objects: line 155 binds the
   caller's list, line 181 extends it in place, lines 179 and 180 act on the
   caller's output definition. *)

\* a name iteration expansion generates
Generated(n) ==
  \E base \in {input_node.name, output_node.name, ParamName} \cup SeqRange(LocalNames) :
    \E k \in 1..MaxIter : n = NameFromIter(base, k)

\* the caller passes definitions without generated names and without border
\* marker; they are still such
AsPassed ==
  /\ \A k \in 1..Len(locals) :
       /\ ~Generated(locals[k].name)
       /\ locals[k].preserve_border = NoName
       /\ \A n \in LoadNames(locals[k]) : ~Generated(n)
  /\ output_node.preserve_border = NoName
  /\ \A n \in LoadNames(output_node) : ~Generated(n)

\* lines 155-213 of a second Stencil(...) called with the same configuration
\* and the objects locals and output_node as they are now: the keys of its
\* self.tensors
SecondTensorNames ==
  LET lnames == {locals[k].name : k \in 1..Len(locals)}
      preserve == (border = "preserve")
      all == locals \o NewLocals(locals, output_node, iterate, input_node.name, lnames, preserve)
  IN {all[k].name : k \in 1..Len(all)} \cup {input_node.name, output_node.name}

\* C29: construction does not mutate its inputs.  After construction the
\* caller's list of locals holds no appended definition, no load of the
\* caller's definitions is renamed and no border marker is set, and a second
\* Stencil built from the same objects with iterate > 1 has the tensor names
\* of the first.
C29_InputsNotMutated ==
  Constructed =>
    /\ AsPassed
    /\ iterate > 1 => SecondTensorNames = DOMAIN tensors

\* the part of C29 that survives: with iterate = 1 and border policy ignore
\* construction leaves its inputs as passed
C29_InputsKeptWithoutExpansion ==
  (Constructed /\ iterate = 1 /\ border = "ignore") =>
    AsPassed /\ SecondTensorNames = DOMAIN tensors

-----------------------------------------------------------------------------
\* name n is an extra parameter's name with an iteration suffix
RenamedParam(n) == \E p \in extra_params : \E k \in 1..MaxIter : n = NameFromIter(p, k)

\* node loads an extra parameter under its original name
LoadsParam(node) == LoadNames(node) \cap extra_params # {}

\* C30: extra parameters keep their names.  No definition, cloned local or
\* final output, loads an extra parameter under a name with an iteration
\* suffix, so construction does not look such a name up among the tensors, and
\* no stage has an extra parameter among its inputs or in its windows.
C30_ExtraParamsKeepNames ==
  /\ \A k \in 1..Len(AllNodes) : \A n \in LoadNames(AllNodes[k]) : ~RenamedParam(n)
  /\ \A s \in DOMAIN stages :
       /\ stages[s].inputs \cap extra_params = {}
       /\ DOMAIN stages[s].window \cap extra_params = {}
       /\ \A n \in DOMAIN stages[s].window : ~RenamedParam(n)

\* the part of C30 that holds: the locals, cloned ones included, load an
\* extra parameter under its original name only, with iterate = 1 so does the
\* output, and no stage has an extra parameter among its inputs or windows
C30_ClonedLocalsKeepNames ==
  /\ \A k \in 1..Len(locals) : \A n \in LoadNames(locals[k]) : ~RenamedParam(n)
  /\ iterate = 1 => \A n \in LoadNames(output_node) : ~RenamedParam(n)
  /\ \A s \in DOMAIN stages :
       /\ stages[s].inputs \cap extra_params = {}
       /\ DOMAIN stages[s].window \cap extra_params = {}

\* three iterations were constructed and the clone of a user's local for the
\* second one loads the extra parameter under its own name
C30_ClonedWitness ==
  /\ Constructed
  /\ iterate = 3
  /\ \E k \in 1..Len(locals) :
       /\ locals[k].name = NameFromIter(LocalNames[1], 2)
       /\ LoadsParam(locals[k])

\* the lookup of the renamed parameter among the tensors failed (line 414)
C30_RenamedLookupFails ==
  /\ err.kind = "KeyError"
  /\ err.args = <<NameFromIter(ParamName, 1)>>
====
